---------------------------- MODULE Spec2Model ----------------------------
(***************************************************************************)
(* Pareidolia Desktop: the filesystem project store (main.js), the Python *)
(* environment provisioner and job executor (python.js), the HTTP         *)
(* ingestion endpoint (express.js) and the train page of the front-end    *)
(* (js/train.js), as one state machine.                                   *)
(*                                                                         *)
(* Node runs every handler on one thread: a handler runs from its event   *)
(* up to the first await of a child process, and the continuation of that *)
(* await runs in the microtask that follows the child's 'close' or        *)
(* 'error' callback.  So one action is one event callback together with   *)
(* the continuations it releases.                                         *)
(***************************************************************************)
EXTENDS Integers, Sequences, FiniteSets, TLC

VARIABLES
    fs,         \* the disk: entries in creation order, [path, kind, data]
    last,       \* the request/response of the latest handler that completed synchronously
    uploads,    \* POST /upload-video requests, in arrival order
    trains,     \* execute-train IPC calls, in arrival order
    converts,   \* convert-video IPC calls, in arrival order
    venvCalls,  \* setupPythonVenv calls, in arrival order
    procs,      \* child processes, in spawn order
    ioFailed,   \* history: some filesystem call of the program has thrown
    trainPage   \* the train page of the front-end: its Train button and its call

vars == <<fs, last, uploads, trains, converts, venvCalls, procs, ioFailed, trainPage>>

---------------------------------------------------------------------------
(* Bounds of the model *)

\* Spec: calls that await a child process (uploads, trainings, conversions)
MaxCalls == 1
\* SpecEnv: setupPythonVenv calls and calls that await a job, together
MaxEnvCalls == 2
\* SpecExec: characters a child writes to one of its streams
MaxText == 2

---------------------------------------------------------------------------
(* Paths *)

PareidoliaPath == <<"PareidoliaApp">>
DatasetsPath   == PareidoliaPath \o <<"datasets">>
ModelsPath     == PareidoliaPath \o <<"models">>

\* The segments of a name used as a path: a name that holds a separator is
\* several segments, the empty name none.
PathSegments(name) ==
    CASE name = "" -> <<>>
      [] name = "d1/d2" -> <<"d1", "d2">>
      [] OTHER -> <<name>>

\* path.join(p, name)
Join(p, name) == p \o PathSegments(name)

getVenvPath == Join(PareidoliaPath, "venv")

getVenvPythonExecutable == getVenvPath \o <<"bin", "python">>

\* Dataset names a client can send: the handlers take any non-empty string,
\* also one with a path separator; "" is an absent or empty field of a request.
Names     == {"d1", "d1/d2"}
NameInput == Names \cup {""}

---------------------------------------------------------------------------
(* node:fs on the modelled disk: a set of entries [path, kind, data], one  *)
(* per path                                                                *)

Dir(p)        == [path |-> p, kind |-> "dir", data |-> ""]
File(p, data) == [path |-> p, kind |-> "file", data |-> data]

existsSync(f, p) == \E e \in f : e.path = p

isDirectory(f, p) == Dir(p) \in f

isFile(f, p) == \E e \in f : e.path = p /\ e.kind = "file"

Parent(p) == SubSeq(p, 1, Len(p) - 1)

\* fs.mkdirSync(p, {recursive: true}): p and its missing ancestors
RECURSIVE mkdirSync(_, _)
mkdirSync(f, p) ==
    IF p = <<>> \/ existsSync(f, p) THEN f
    ELSE mkdirSync(f, Parent(p)) \cup {Dir(p)}

\* The order in which a directory lists its entries: by name.
DirOrder ==
    <<"PareidoliaApp", "a.jpg", "b.txt", "bin", "c.PNG", "d1", "d2", "datasets",
      "e.jpeg", "m1", "m2", "model", "model-settings.json", "model.tflite",
      "models", "negatives", "positives", "python", "v.mp4", "venv", "w.mp4">>

RECURSIVE ReadInOrder(_, _, _)
ReadInOrder(f, p, names) ==
    IF names = <<>> THEN <<>>
    ELSE (IF existsSync(f, Join(p, Head(names))) THEN <<Head(names)>> ELSE <<>>)
         \o ReadInOrder(f, p, Tail(names))

\* fs.readdirSync(p): the names directly under p
readdirSync(f, p) == ReadInOrder(f, p, DirOrder)

\* fs.writeFileSync(p, data) on an existing parent directory: creates or overwrites
writeFileSync(f, p, data) == {e \in f : e.path # p} \cup {File(p, data)}

\* fs.unlinkSync(p) of an existing file
unlinkSync(f, p) == {e \in f : e.path # p}

---------------------------------------------------------------------------
(* A run of filesystem calls inside one handler.  io = [fs, n, failAt,     *)
(* threw]: n counts the mutating calls made so far; the failAt-th one      *)
(* throws (failAt = 0: none does) and the handler's catch block takes over.*)

\* the latest mutating call of a handler that the model lets throw
MaxFailAt == 2

FailPoints == 0 .. MaxFailAt

IoStart(f, failAt) == [fs |-> f, n |-> 0, failAt |-> failAt, threw |-> FALSE]

\* one mutating call: it throws, or it leaves the disk as g
IoCall(io, g) ==
    IF io.threw THEN io
    ELSE IF io.n + 1 = io.failAt
         THEN [io EXCEPT !.n = io.n + 1, !.threw = TRUE]
         ELSE [io EXCEPT !.n = io.n + 1, !.fs = g]

\* main.js idiom: if (!fs.existsSync(p)) fs.mkdirSync(p, {recursive: true})
EnsureDir(io, p) ==
    IF io.threw \/ existsSync(io.fs, p) THEN io
    ELSE IoCall(io, mkdirSync(io.fs, p))

ensurePareidoliaFolder(io) ==
    EnsureDir(EnsureDir(EnsureDir(io, PareidoliaPath), DatasetsPath), ModelsPath)

DatasetPath(name) == Join(DatasetsPath, name)
PositivesOf(projectPath) == Join(projectPath, "positives")
NegativesOf(projectPath) == Join(projectPath, "negatives")

\* p is q or lies under q
IsUnder(p, q) == Len(p) >= Len(q) /\ SubSeq(p, 1, Len(q)) = q

\* Variant of createDatasetFolder that sets the dataset folder up anew: it
\* clears what the folder holds before it makes the three directories.
createDatasetFolderAnew(io, projectName) ==
    LET projectPath == DatasetPath(projectName)
        io0 == ensurePareidoliaFolder(io)
        io1 == IF io0.threw THEN io0
               ELSE IoCall(io0, mkdirSync({e \in io0.fs : ~IsUnder(e.path, projectPath)},
                                          projectPath))
    IN EnsureDir(EnsureDir(io1, PositivesOf(projectPath)), NegativesOf(projectPath))

createDatasetFolder(io, projectName) ==
    LET projectPath == DatasetPath(projectName)
    IN EnsureDir(EnsureDir(EnsureDir(ensurePareidoliaFolder(io), projectPath),
                           PositivesOf(projectPath)),
                 NegativesOf(projectPath))

ModelPath(name) == Join(ModelsPath, name)
SettingsPath(name) == Join(ModelPath(name), "model-settings.json")

defaultSettings == [datasets |-> <<>>, labels |-> <<>>, epochs |-> 10]

\* JSON.stringify(settings, null, 2), on the settings records of the model
JSONstringify(settings) ==
    IF settings = defaultSettings
    THEN "{\"datasets\": [], \"labels\": [], \"epochs\": 10}"
    ELSE "{}"

\* Variant of createModelFolder that writes the default settings record on
\* every call.
createModelFolderRewrites(io, modelName) ==
    LET modelPath == ModelPath(modelName)
        io1 == EnsureDir(EnsureDir(ensurePareidoliaFolder(io), modelPath),
                         Join(modelPath, "models"))
    IN IF io1.threw THEN io1
       ELSE IoCall(io1, writeFileSync(io1.fs, SettingsPath(modelName),
                                      JSONstringify(defaultSettings)))

createModelFolder(io, modelName) ==
    LET modelPath == ModelPath(modelName)
        io1 == EnsureDir(EnsureDir(ensurePareidoliaFolder(io), modelPath),
                         Join(modelPath, "models"))
    IN IF io1.threw \/ existsSync(io1.fs, SettingsPath(modelName)) THEN io1
       ELSE IoCall(io1, writeFileSync(io1.fs, SettingsPath(modelName),
                                      JSONstringify(defaultSettings)))

\* the {name, path} pairs of the directories among `files` of directory p
RECURSIVE OnlyDirectories(_, _, _)
OnlyDirectories(f, p, files) ==
    IF files = <<>> THEN <<>>
    ELSE LET file == Head(files)
             filePath == Join(p, file)
             rest == OnlyDirectories(f, p, Tail(files))
         IN IF isDirectory(f, filePath)
            THEN <<[name |-> file, path |-> filePath]>> \o rest
            ELSE rest

\* Variant of getDatasetsList that lists every entry of the directory.
getDatasetsListAllEntries(f) ==
    IF ~existsSync(f, DatasetsPath) THEN <<>>
    ELSE [k \in DOMAIN readdirSync(f, DatasetsPath) |->
            [name |-> readdirSync(f, DatasetsPath)[k],
             path |-> Join(DatasetsPath, readdirSync(f, DatasetsPath)[k])]]

getDatasetsList(f) ==
    IF ~existsSync(f, DatasetsPath) THEN <<>>
    ELSE OnlyDirectories(f, DatasetsPath, readdirSync(f, DatasetsPath))

getModelsList(f) ==
    IF ~existsSync(f, ModelsPath) THEN <<>>
    ELSE OnlyDirectories(f, ModelsPath, readdirSync(f, ModelsPath))

---------------------------------------------------------------------------
(* Text of a child's streams: sequences of characters.  Messages that the  *)
(* code builds are sequences of their parts; Undefined is an absent field. *)

Chars == {"a", " "}

Undefined == <<"undefined">>

RECURSIVE trimStart(_)
trimStart(t) == IF t # <<>> /\ Head(t) = " " THEN trimStart(Tail(t)) ELSE t

RECURSIVE trimEnd(_)
trimEnd(t) ==
    IF t # <<>> /\ t[Len(t)] = " " THEN trimEnd(SubSeq(t, 1, Len(t) - 1)) ELSE t

\* String.prototype.trim
trim(t) == trimEnd(trimStart(t))

\* exit codes as the text `${code}` prints; "null" is a child ended by a signal,
\* "-2" the code that follows a failed spawn
ExitCodes == {"0", "1", "null"}

SpawnErrorMessage == <<"spawn ENOENT">>

---------------------------------------------------------------------------
(* Child processes.  A record of procs:                                    *)
(*   kind    "extract" | "train" | "bootstrap" | "pip"                     *)
(*   exe     "venv" (the environment's interpreter) | "system"             *)
(*   owner   [type, id]: the call that spawned it                          *)
(*   st      "running" | "failing" (spawn failed, 'error' not yet emitted) *)
(*           | "errored" ('error' emitted, 'close' to come) | "closed"     *)
(*   output, error   what the stream handlers accumulated                  *)
(*   code    the exit code 'close' carried, "none" before                  *)
(*   settled, result   the promise of executePythonScript                  *)
(*   envOk   history: a setupPythonVenv call had resolved success:true     *)
(*           when the child was spawned                                    *)

NoResult == [success |-> FALSE, output |-> Undefined, error |-> Undefined]

\* python.js:208-213
SuccessResult(output) ==
    [success |-> TRUE, output |-> trim(output), error |-> Undefined]

\* python.js:216-221 and 228-233
FailureResult(error) ==
    [success |-> FALSE, output |-> Undefined, error |-> error]

\* error || `Process exited with code ${code}`
ErrorOrCode(error, code) ==
    IF error # <<>> THEN error ELSE <<"Process exited with code ", code>>

\* Variant of CloseResult that takes anything on stderr for a failure.
CloseResultStderrFails(p, code) ==
    IF code = "0" /\ p.error = <<>> THEN SuccessResult(p.output)
    ELSE FailureResult(ErrorOrCode(p.error, code))

\* the result the 'close' handler of executePythonScript resolves with
CloseResult(p, code) ==
    IF code = "0" THEN SuccessResult(p.output)
    ELSE FailureResult(ErrorOrCode(p.error, code))

\* the result the 'error' handler of executePythonScript resolves with
ErrorResult(p) == FailureResult(SpawnErrorMessage)

\* Variant of Settle in which the latest call decides the result.
SettleLastWins(p, r) == [p EXCEPT !.settled = TRUE, !.result = r]

\* resolve(r) of a promise: only the first call settles it
Settle(p, r) ==
    IF p.settled THEN p ELSE [p EXCEPT !.settled = TRUE, !.result = r]

EnvResolvedOk(calls) ==
    \E c \in DOMAIN calls : calls[c].settled /\ calls[c].result.success

\* child_process.spawn: the child runs when its executable is found; the
\* environment's interpreter is found when its file exists, a system
\* interpreter when the host has it on the PATH (onPath)
NewProc(f, calls, kind, exe, owner, onPath) ==
    [kind |-> kind, exe |-> exe, owner |-> owner,
     st |-> IF (exe = "venv" /\ isFile(f, getVenvPythonExecutable))
               \/ (exe = "system" /\ onPath)
            THEN "running" ELSE "failing",
     output |-> <<>>, error |-> <<>>, code |-> "none",
     settled |-> FALSE, result |-> NoResult,
     envOk |-> EnvResolvedOk(calls)]

\* Variant of executePythonScript that runs one job at a time: a job asked
\* for while another has not resolved is queued, not spawned.
executePythonScriptQueued(f, calls, kind, venvPath, owner, onPath) ==
    LET p == NewProc(f, calls, kind, IF venvPath # <<>> THEN "venv" ELSE "system",
                     owner, onPath)
    IN IF \E i \in DOMAIN procs : ~procs[i].settled THEN [p EXCEPT !.st = "queued"] ELSE p

\* executePythonScript(pythonPath, args, venvPath): pythonExecutable is the
\* environment's interpreter when venvPath is given, 'python3' otherwise
executePythonScript(f, calls, kind, venvPath, owner, onPath) ==
    NewProc(f, calls, kind, IF venvPath # <<>> THEN "venv" ELSE "system", owner, onPath)

IsJob(p) == p.kind \in {"extract", "train"}

---------------------------------------------------------------------------
(* Requests *)

FileNames     == {"v.mp4"}
FileNameInput == FileNames \cup {""}

\* base64 payloads of a request body; "" is an absent or empty field
FileDataInput == {"", "QQ==", "Qg=="}

\* Buffer.from(fileData, 'base64'), on the payloads of the model
Base64Decode(fileData) ==
    CASE fileData = "QQ==" -> "A"
      [] fileData = "Qg==" -> "B"
      [] OTHER -> ""

\* buffer.length
ByteLength(buffer) == IF buffer = "" THEN 0 ELSE 1

\* the fields a response body or a bridge result can carry; list holds the
\* {name, path} entries of a listing, images the {name, url} entries of an
\* image listing, file the path of a file sent for download
NoBody ==
    [success |-> FALSE, error |-> "", name |-> "", fileName |-> "", fileSize |-> 0,
     message |-> "", list |-> <<>>, images |-> <<>>, file |-> <<>>]

ModelNames == {"m1"}

\* the reply of an invoke that has not come
NoReply == [settled |-> FALSE, threw |-> FALSE, success |-> FALSE]

\* the train page as it loads: its button can be clicked.  pc: "idle" |
\* "invoked" (the execute-train message is on its way) | "awaiting" (the
\* handler has taken it); call: the training job the handler awaits, 0 for
\* none; reply: what the handler answered without a job; display: the text
\* of the element 'random-number'; clicks: history, the clicks handled
PageLoaded ==
    [pc |-> "idle", disabled |-> FALSE, textContent |-> "Train", display |-> "",
     call |-> 0, reply |-> NoReply, clicks |-> 0]

\* nothing has been requested yet
Idle ==
    /\ trainPage = PageLoaded
    /\ last = [flip |-> FALSE, op |-> "none", arg |-> "", status |-> 0,
               threw |-> FALSE, body |-> NoBody, existed |-> FALSE]
    /\ uploads = <<>>
    /\ trains = <<>>
    /\ converts = <<>>
    /\ venvCalls = <<>>
    /\ procs = <<>>
    /\ ioFailed = FALSE

\* the disk a run that provisioned the environment leaves to the next run
ProvisionedDisk ==
    mkdirSync({}, Parent(getVenvPythonExecutable))
        \cup {File(getVenvPythonExecutable, "python")}

\* the application starts on a fresh disk or on one with the environment
Init ==
    /\ fs \in {{}, ProvisionedDisk}
    /\ Idle

\* the response (HTTP) or the settled result (IPC) of a handler that finished
\* without awaiting a child; status 0 is an IPC call, threw a rejected one
\* existed: the dataset (model) the request names was on disk when it arrived
Respond(op, arg, status, threw, body) ==
    last' = [flip |-> ~last.flip, op |-> op, arg |-> arg, status |-> status,
             threw |-> threw, body |-> body,
             existed |-> (arg # "" /\ existsSync(fs, IF op \in {"create-model-folder",
                                                              "download-model-mobile"}
                                                     THEN ModelPath(arg)
                                                     ELSE DatasetPath(arg)))]

---------------------------------------------------------------------------
(* Bridge (IPC) handlers of the store *)

\* ipcMain.handle('create-dataset-folder')
IpcCreateDatasetFolder(projectName, failAt) ==
    LET io == createDatasetFolder(IoStart(fs, failAt), projectName)
    IN /\ fs' = io.fs
       /\ ioFailed' = (ioFailed \/ io.threw)
       /\ Respond("create-dataset-folder", projectName, 0, io.threw,
                  [NoBody EXCEPT !.success = ~io.threw])
       /\ UNCHANGED <<uploads, trains, converts, venvCalls, trainPage, procs>>

\* ipcMain.handle('create-model-folder')
IpcCreateModelFolder(modelName, failAt) ==
    LET io == createModelFolder(IoStart(fs, failAt), modelName)
    IN /\ fs' = io.fs
       /\ ioFailed' = (ioFailed \/ io.threw)
       /\ Respond("create-model-folder", modelName, 0, io.threw,
                  [NoBody EXCEPT !.success = ~io.threw])
       /\ UNCHANGED <<uploads, trains, converts, venvCalls, trainPage, procs>>

\* ipcMain.handle('get-pareidolia-path'); body.file is the path returned
IpcGetPareidoliaPath(failAt) ==
    LET io == ensurePareidoliaFolder(IoStart(fs, failAt))
    IN /\ fs' = io.fs
       /\ ioFailed' = (ioFailed \/ io.threw)
       /\ Respond("get-pareidolia-path", "", 0, io.threw,
                  IF io.threw THEN NoBody
                  ELSE [NoBody EXCEPT !.success = TRUE, !.file = PareidoliaPath])
       /\ UNCHANGED <<uploads, trains, converts, venvCalls, trainPage, procs>>

\* ipcMain.handle('get-datasets-list'); readFails: fs.readdirSync (or
\* fs.statSync) throws, and getDatasetsList rethrows
IpcGetDatasetsList(readFails) ==
    LET threw == readFails /\ existsSync(fs, DatasetsPath)
    IN /\ Respond("get-datasets-list", "", 0, threw,
                  IF threw THEN NoBody
                  ELSE [NoBody EXCEPT !.success = TRUE, !.list = getDatasetsList(fs)])
       /\ ioFailed' = (ioFailed \/ threw)
       /\ UNCHANGED <<fs, uploads, trains, converts, venvCalls, trainPage, procs>>

\* ipcMain.handle('get-models-list')
IpcGetModelsList(readFails) ==
    LET threw == readFails /\ existsSync(fs, ModelsPath)
    IN /\ Respond("get-models-list", "", 0, threw,
                  IF threw THEN NoBody
                  ELSE [NoBody EXCEPT !.success = TRUE, !.list = getModelsList(fs)])
       /\ ioFailed' = (ioFailed \/ threw)
       /\ UNCHANGED <<fs, uploads, trains, converts, venvCalls, trainPage, procs>>

---------------------------------------------------------------------------
(* HTTP routes *)

\* Variant of HttpAddDataset that makes sure of the application folders
\* before it looks at the request.
HttpAddDatasetEnsuresFirst(datasetName, failAt) ==
    LET io0 == ensurePareidoliaFolder(IoStart(fs, failAt))
        io == createDatasetFolder(io0, datasetName)
    IN IF datasetName = ""
       THEN /\ fs' = io0.fs
            /\ ioFailed' = (ioFailed \/ io0.threw)
            /\ Respond("add-dataset", datasetName, 400, FALSE,
                       [NoBody EXCEPT !.error = "datasetName is required"])
            /\ UNCHANGED <<uploads, trains, converts, venvCalls, trainPage, procs>>
       ELSE /\ fs' = io.fs
            /\ ioFailed' = (ioFailed \/ io.threw)
            /\ IF io.threw
               THEN Respond("add-dataset", datasetName, 500, TRUE,
                            [NoBody EXCEPT !.error = "error.message"])
               ELSE Respond("add-dataset", datasetName, 201, FALSE,
                            [NoBody EXCEPT !.success = TRUE, !.name = datasetName])
            /\ UNCHANGED <<uploads, trains, converts, venvCalls, trainPage, procs>>

\* app.post('/add-dataset')
HttpAddDataset(datasetName, failAt) ==
    IF datasetName = ""
    THEN /\ Respond("add-dataset", datasetName, 400, FALSE,
                    [NoBody EXCEPT !.error = "datasetName is required"])
         /\ UNCHANGED <<fs, ioFailed, uploads, trains, converts, venvCalls, trainPage, procs>>
    ELSE LET io == createDatasetFolder(IoStart(fs, failAt), datasetName)
         IN /\ fs' = io.fs
            /\ ioFailed' = (ioFailed \/ io.threw)
            /\ IF io.threw
               THEN Respond("add-dataset", datasetName, 500, TRUE,
                            [NoBody EXCEPT !.error = "error.message"])
               ELSE Respond("add-dataset", datasetName, 201, FALSE,
                            [NoBody EXCEPT !.success = TRUE, !.name = datasetName])
            /\ UNCHANGED <<uploads, trains, converts, venvCalls, trainPage, procs>>

\* app.post('/add-model').  express.js does not import createModelFolder
\* and does not define it: the call in the try block throws a
\* ReferenceError before anything runs, and the catch block answers 500
\* with its message.
HttpAddModel(modelName) ==
    /\ IF modelName = ""
       THEN Respond("add-model", modelName, 400, FALSE,
                    [NoBody EXCEPT !.error = "modelName is required"])
       ELSE Respond("add-model", modelName, 500, TRUE,
                    [NoBody EXCEPT !.error = "createModelFolder is not defined"])
    /\ UNCHANGED <<fs, ioFailed, uploads, trains, converts, venvCalls, trainPage, procs>>

\* Variant of HttpGetDatasets that answers a failed listing with an empty
\* array.
HttpGetDatasetsSwallows(readFails) ==
    /\ Respond("get-datasets", "", 200, FALSE,
               [NoBody EXCEPT !.success = TRUE,
                  !.list = IF readFails THEN <<>> ELSE getDatasetsList(fs)])
    /\ ioFailed' = (ioFailed \/ (readFails /\ existsSync(fs, DatasetsPath)))
    /\ UNCHANGED <<fs, uploads, trains, converts, venvCalls, trainPage, procs>>

\* app.get('/get-datasets'); body.list is the array of res.json, body.error
\* the error field of the 500 response
HttpGetDatasets(readFails) ==
    LET threw == readFails /\ existsSync(fs, DatasetsPath)
    IN /\ IF threw
          THEN Respond("get-datasets", "", 500, TRUE,
                       [NoBody EXCEPT !.error = "error.message"])
          ELSE Respond("get-datasets", "", 200, FALSE,
                       [NoBody EXCEPT !.success = TRUE, !.list = getDatasetsList(fs)])
       /\ ioFailed' = (ioFailed \/ threw)
       /\ UNCHANGED <<fs, uploads, trains, converts, venvCalls, trainPage, procs>>

\* app.get('/get-models')
HttpGetModels(readFails) ==
    LET threw == readFails /\ existsSync(fs, ModelsPath)
    IN /\ IF threw
          THEN Respond("get-models", "", 500, TRUE,
                       [NoBody EXCEPT !.error = "error.message"])
          ELSE Respond("get-models", "", 200, FALSE,
                       [NoBody EXCEPT !.success = TRUE, !.list = getModelsList(fs)])
       /\ ioFailed' = (ioFailed \/ threw)
       /\ UNCHANGED <<fs, uploads, trains, converts, venvCalls, trainPage, procs>>

VideoPath(datasetName, fileName) ==
    Join(PositivesOf(DatasetPath(datasetName)), fileName)

\* Variant of UploadValidation that does not look at the payload.
UploadValidationWithoutData(fileName, fileData, datasetName) ==
    IF fileName = "" THEN "fileName is required"
    ELSE IF datasetName = "" THEN "datasetName is required"
    ELSE ""

\* the validation of app.post('/upload-video'): the message of the 400
\* response, "" for a request that passes
UploadValidation(fileName, fileData, datasetName) ==
    IF fileName = "" THEN "fileName is required"
    ELSE IF datasetName = "" THEN "datasetName is required"
    ELSE IF fileData = "" THEN "fileData is required"
    ELSE ""

\* Variant of HttpUploadVideo that only logs a failed write of the video and
\* goes on to the conversion.
HttpUploadVideoLogsWriteError(fileName, fileData, datasetName, failAt) ==
    /\ IF UploadValidation(fileName, fileData, datasetName) # ""
       THEN /\ Respond("upload-video", datasetName, 400, FALSE,
                       [NoBody EXCEPT !.error =
                           UploadValidation(fileName, fileData, datasetName)])
            /\ UNCHANGED <<fs, ioFailed, uploads, trains, converts, venvCalls, trainPage, procs>>
       ELSE LET datasetPath == DatasetPath(datasetName)
                existed == existsSync(fs, datasetPath)
                io0 == IoStart(fs, failAt)
                io1 == IF existed THEN io0 ELSE createDatasetFolder(io0, datasetName)
                buffer == Base64Decode(fileData)
                positivesPath == PositivesOf(datasetPath)
                videoPath == Join(positivesPath, fileName)
                \* writeFileSync throws ENOENT when positives/ is missing
                io2 == IF io1.threw THEN io1
                       ELSE IF ~isDirectory(io1.fs, positivesPath)
                            THEN [io1 EXCEPT !.threw = TRUE]
                            ELSE IoCall(io1, writeFileSync(io1.fs, videoPath, buffer))
                id == Len(uploads) + 1
            IN /\ fs' = io2.fs
               /\ ioFailed' = (ioFailed \/ io2.threw)
               /\ IF io1.threw
                  THEN /\ Respond("upload-video", datasetName, 500, TRUE,
                                  [NoBody EXCEPT !.error = "Failed to process video upload",
                                                 !.message = "error.message"])
                       /\ UNCHANGED <<uploads, procs>>
                  ELSE /\ uploads' = Append(uploads,
                            [fileName |-> fileName, fileData |-> fileData,
                             datasetName |-> datasetName, existed |-> existed,
                             pc |-> "converting", status |-> 0, body |-> NoBody,
                             conversion |-> NoResult,
                             log |-> (IF existed THEN <<>> ELSE <<"createDataset">>)
                                     \o <<"write", "spawn">>])
                       /\ procs' = Append(procs,
                            executePythonScript(io2.fs, venvCalls, "extract", getVenvPath,
                                                [type |-> "upload", id |-> id], FALSE))
                       /\ UNCHANGED last
               /\ UNCHANGED <<trains, converts, venvCalls, trainPage>>

\* app.post('/upload-video'), from the request to the await of the
\* conversion job (or to the 400/500 response)
HttpUploadVideo(fileName, fileData, datasetName, failAt) ==
    /\ IF UploadValidation(fileName, fileData, datasetName) # ""
       THEN /\ Respond("upload-video", datasetName, 400, FALSE,
                       [NoBody EXCEPT !.error =
                           UploadValidation(fileName, fileData, datasetName)])
            /\ UNCHANGED <<fs, ioFailed, uploads, trains, converts, venvCalls, trainPage, procs>>
       ELSE LET datasetPath == DatasetPath(datasetName)
                existed == existsSync(fs, datasetPath)
                io0 == IoStart(fs, failAt)
                io1 == IF existed THEN io0 ELSE createDatasetFolder(io0, datasetName)
                buffer == Base64Decode(fileData)
                positivesPath == PositivesOf(datasetPath)
                videoPath == Join(positivesPath, fileName)
                \* writeFileSync throws ENOENT when positives/ is missing
                io2 == IF io1.threw THEN io1
                       ELSE IF ~isDirectory(io1.fs, positivesPath)
                            THEN [io1 EXCEPT !.threw = TRUE]
                            ELSE IoCall(io1, writeFileSync(io1.fs, videoPath, buffer))
                id == Len(uploads) + 1
            IN /\ fs' = io2.fs
               /\ ioFailed' = (ioFailed \/ io2.threw)
               /\ IF io2.threw
                  THEN /\ Respond("upload-video", datasetName, 500, TRUE,
                                  [NoBody EXCEPT !.error = "Failed to process video upload",
                                                 !.message = "error.message"])
                       /\ UNCHANGED <<uploads, procs>>
                  ELSE /\ uploads' = Append(uploads,
                            [fileName |-> fileName, fileData |-> fileData,
                             datasetName |-> datasetName, existed |-> existed,
                             pc |-> "converting", status |-> 0, body |-> NoBody,
                             conversion |-> NoResult,
                             log |-> (IF existed THEN <<>> ELSE <<"createDataset">>)
                                     \o <<"write", "spawn">>])
                       /\ procs' = Append(procs,
                            executePythonScript(io2.fs, venvCalls, "extract", getVenvPath,
                                                [type |-> "upload", id |-> id], FALSE))
                       /\ UNCHANGED last
               /\ UNCHANGED <<trains, converts, venvCalls, trainPage>>

\* Variant of UploadFinish that lets a failed deletion reach the outer catch
\* block: the response is then the 500 of a failed upload.
UploadFinishSurfacesDeleteError(f, u, conversionResult) ==
    LET videoPath == VideoPath(u.datasetName, u.fileName)
        unlinked == isFile(f, videoPath)
    IN [fs |-> IF unlinked THEN unlinkSync(f, videoPath) ELSE f,
        upload |-> [u EXCEPT !.pc = "responded",
                      !.status = IF unlinked THEN 201 ELSE 500,
                      !.conversion = conversionResult,
                      !.body = [NoBody EXCEPT !.success = unlinked,
                                  !.fileName = u.fileName, !.name = u.datasetName,
                                  !.fileSize = ByteLength(Base64Decode(u.fileData))],
                      !.log = @ \o <<"converted",
                                     IF unlinked THEN "unlink" ELSE "unlinkThrew",
                                     "respond">>]]

\* Variant of UploadFinish that keeps the video of a failed conversion.
UploadFinishKeepsFailed(f, u, conversionResult) ==
    LET videoPath == VideoPath(u.datasetName, u.fileName)
        unlinked == isFile(f, videoPath)
    IN [fs |-> IF unlinked /\ conversionResult.success THEN unlinkSync(f, videoPath) ELSE f,
        upload |-> [u EXCEPT !.pc = "responded", !.status = 201,
                      !.conversion = conversionResult,
                      !.body = [NoBody EXCEPT !.success = TRUE,
                                  !.fileName = u.fileName, !.name = u.datasetName,
                                  !.fileSize = ByteLength(Base64Decode(u.fileData))],
                      !.log = @ \o <<"converted",
                                     IF unlinked THEN "unlink" ELSE "unlinkThrew",
                                     "respond">>]]

\* Variant of UploadFinish whose status follows the conversion result: 500 when the conversion failed.
UploadFinishStatusFollowsConversion(f, u, conversionResult) ==
    LET videoPath == VideoPath(u.datasetName, u.fileName)
    IN [fs |-> unlinkSync(f, videoPath),
        upload |-> [u EXCEPT !.pc = "responded",
                      !.status = IF conversionResult.success THEN 201 ELSE 500,
                      !.conversion = conversionResult,
                      !.log = @ \o <<"converted", "unlink", "respond">>]]

\* app.post('/upload-video'), from the conversion result to the response
UploadFinish(f, u, conversionResult) ==
    LET videoPath == VideoPath(u.datasetName, u.fileName)
        unlinked == isFile(f, videoPath)
    IN [fs |-> IF unlinked THEN unlinkSync(f, videoPath) ELSE f,
        upload |-> [u EXCEPT !.pc = "responded", !.status = 201,
                      !.conversion = conversionResult,
                      !.body = [NoBody EXCEPT !.success = TRUE,
                                  !.fileName = u.fileName, !.name = u.datasetName,
                                  !.fileSize = ByteLength(Base64Decode(u.fileData))],
                      !.log = @ \o <<"converted",
                                     IF unlinked THEN "unlink" ELSE "unlinkThrew",
                                     "respond">>]]

---------------------------------------------------------------------------
(* Bridge (IPC) handlers that run a job *)

\* params.epochs of execute-train: a number (as its text), "" when absent
EpochsInput == {"10", ""}

\* Variant of TrainFolderCheck that asks for positives/ only.
TrainFolderCheckPositivesOnly(f, projectPath) ==
    IF ~existsSync(f, PositivesOf(projectPath)) THEN "Positives folder not found at: "
    ELSE ""

\* Variant of TrainFolderCheck that also asks for the model folder.
TrainFolderCheckWithModel(f, projectPath) ==
    IF ~existsSync(f, PositivesOf(projectPath)) THEN "Positives folder not found at: "
    ELSE IF ~existsSync(f, NegativesOf(projectPath)) THEN "Negatives folder not found at: "
    ELSE IF ~existsSync(f, Join(projectPath, "model")) THEN "Model folder not found at: "
    ELSE ""

\* the folder checks of execute-train: the head of the error message of the
\* structured failure, "" when training can go on
TrainFolderCheck(f, projectPath) ==
    IF ~existsSync(f, PositivesOf(projectPath)) THEN "Positives folder not found at: "
    ELSE IF ~existsSync(f, NegativesOf(projectPath)) THEN "Negatives folder not found at: "
    ELSE ""

\* ipcMain.handle('execute-train'), up to the await of the training job;
\* body.file is the path that the error message ends with.  Without epochs,
\* epochs.toString() throws after the model folder was made.
ExecuteTrainHandler(projectName, epochs, failAt) ==
    LET projectPath == DatasetPath(projectName)
        modelFolder == Join(projectPath, "model")
        check == TrainFolderCheck(fs, projectPath)
        io == EnsureDir(IoStart(fs, failAt), modelFolder)
    IN /\ IF check # ""
          THEN /\ Respond("execute-train", projectName, 0, FALSE,
                          [NoBody EXCEPT !.error = check,
                             !.file = IF ~existsSync(fs, PositivesOf(projectPath))
                                      THEN PositivesOf(projectPath)
                                      ELSE IF ~existsSync(fs, NegativesOf(projectPath))
                                      THEN NegativesOf(projectPath)
                                      ELSE modelFolder])
               /\ UNCHANGED <<fs, ioFailed, trains, procs>>
          ELSE /\ fs' = io.fs
               /\ ioFailed' = (ioFailed \/ io.threw)
               /\ IF io.threw \/ epochs = ""
                  THEN /\ Respond("execute-train", projectName, 0, TRUE, NoBody)
                       /\ UNCHANGED <<trains, procs>>
                  ELSE /\ trains' = Append(trains,
                             [projectPath |-> projectPath, settled |-> FALSE,
                              result |-> NoResult])
                       /\ procs' = Append(procs,
                             executePythonScript(io.fs, venvCalls, "train", getVenvPath,
                                 [type |-> "train", id |-> Len(trains) + 1], FALSE))
                       /\ UNCHANGED last
       /\ UNCHANGED <<uploads, converts, venvCalls>>

\* an execute-train call that the train page of the model did not make
IpcExecuteTrain(projectName, epochs, failAt) ==
    /\ ExecuteTrainHandler(projectName, epochs, failAt)
    /\ UNCHANGED trainPage

\* ipcMain.handle('convert-video') -> convertVideo(projectPath): the file
\* chooser is cancelled, or the chosen video is converted
IpcConvertVideo(projectName, canceled) ==
    /\ IF canceled
       THEN /\ Respond("convert-video", projectName, 0, FALSE, NoBody)
            /\ UNCHANGED <<converts, procs>>
       ELSE /\ converts' = Append(converts,
                  [projectPath |-> PositivesOf(DatasetPath(projectName)),
                   settled |-> FALSE, result |-> NoResult])
            /\ procs' = Append(procs,
                  executePythonScript(fs, venvCalls, "extract", getVenvPath,
                      [type |-> "convert", id |-> Len(converts) + 1], FALSE))
            /\ UNCHANGED last
    /\ UNCHANGED <<fs, ioFailed, uploads, trains, venvCalls, trainPage>>

---------------------------------------------------------------------------
(* Environment provisioner: setupPythonVenv.  A record of venvCalls:       *)
(*   sawVenv   history: the environment directory was on disk at the call  *)
(*   overlap   history: an earlier call had not resolved at the call        *)
(*   settled, result   the promise the call returned                       *)
(*   envReady  history: a bootstrap and a package install had both closed  *)
(*             with code 0 when the promise was resolved                   *)

\* the environment is Ready: bootstrap and install have closed with status 0
EnvReady(ps) ==
    /\ \E i \in DOMAIN ps : ps[i].kind = "bootstrap" /\ ps[i].st = "closed" /\ ps[i].code = "0"
    /\ \E i \in DOMAIN ps : ps[i].kind = "pip" /\ ps[i].st = "closed" /\ ps[i].code = "0"

VenvResult(success, error) == [success |-> success, output |-> Undefined, error |-> error]

\* resolve(r) of the promise of call c
SettleCall(calls, c, r, ready) ==
    IF calls[c].settled THEN calls
    ELSE [calls EXCEPT ![c].settled = TRUE, ![c].result = r, ![c].envReady = ready]

\* Variant of VenvExists that looks for the environment's interpreter.
VenvExistsByInterpreter(f) == isFile(f, getVenvPythonExecutable)

\* the existence check at the head of setupPythonVenv
VenvExists(f) == existsSync(f, getVenvPath)

\* ipcMain.handle('setup-python-venv') -> setupPythonVenv(), up to the
\* return of the promise executor
SetupPythonVenv(onPath) ==
    LET c == Len(venvCalls) + 1
        call == [sawVenv |-> existsSync(fs, getVenvPath),
                 overlap |-> (\E d \in DOMAIN venvCalls : ~venvCalls[d].settled),
                 settled |-> FALSE, result |-> NoResult, envReady |-> FALSE]
    IN /\ IF VenvExists(fs)
          THEN /\ venvCalls' = SettleCall(Append(venvCalls, call), c,
                                          VenvResult(TRUE, Undefined), EnvReady(procs))
               /\ UNCHANGED procs
          ELSE /\ venvCalls' = Append(venvCalls, call)
               /\ procs' = Append(procs,
                      NewProc(fs, venvCalls, "bootstrap", "system",
                              [type |-> "venv", id |-> c], onPath))
       /\ UNCHANGED <<fs, last, uploads, trains, converts, ioFailed, trainPage>>

\* `python -m venv <venvPath>` at work: it makes the environment directory,
\* then the interpreter in it
BootstrapWrites(i) ==
    /\ procs[i].kind = "bootstrap" /\ procs[i].st = "running"
    /\ ~isFile(fs, getVenvPythonExecutable)
    /\ fs' = IF ~existsSync(fs, getVenvPath) THEN mkdirSync(fs, getVenvPath)
             ELSE mkdirSync(fs, Parent(getVenvPythonExecutable))
                  \cup {File(getVenvPythonExecutable, "python")}
    /\ UNCHANGED <<last, uploads, trains, converts, venvCalls, trainPage, procs, ioFailed>>

\* Variant of BootstrapClose that goes on to the package install whatever
\* the exit code of the bootstrap.
BootstrapCloseAlwaysInstalls(i, code) ==
    LET p == procs[i]
        c == p.owner.id
        closed == [p EXCEPT !.st = "closed", !.code = code]
        ps == [procs EXCEPT ![i] = closed]
    IN /\ p.kind = "bootstrap"
       /\ \/ p.st = "running" /\ code \in ExitCodes
          \/ p.st = "errored" /\ code = "-2"
       /\ procs' = Append(ps, NewProc(fs, venvCalls, "pip", "venv",
                                      [type |-> "venv", id |-> c], FALSE))
       /\ UNCHANGED venvCalls
       /\ UNCHANGED <<fs, last, uploads, trains, converts, ioFailed, trainPage>>

\* createVenvProcess.on('close')
BootstrapClose(i, code) ==
    LET p == procs[i]
        c == p.owner.id
        closed == [p EXCEPT !.st = "closed", !.code = code]
        ps == [procs EXCEPT ![i] = closed]
    IN /\ p.kind = "bootstrap"
       /\ \/ p.st = "running" /\ code \in ExitCodes
          \/ p.st = "errored" /\ code = "-2"
       /\ IF code = "0"
          THEN /\ procs' = Append(ps, NewProc(fs, venvCalls, "pip", "venv",
                                              [type |-> "venv", id |-> c], FALSE))
               /\ UNCHANGED venvCalls
          ELSE /\ procs' = ps
               /\ venvCalls' = SettleCall(venvCalls, c,
                     VenvResult(FALSE, IF p.error # <<>> THEN p.error
                                       ELSE <<"venv creation exited with code ", code>>),
                     EnvReady(ps))
       /\ UNCHANGED <<fs, last, uploads, trains, converts, ioFailed, trainPage>>

\* createVenvProcess.on('error')
BootstrapError(i) ==
    LET p == procs[i]
    IN /\ p.kind = "bootstrap" /\ p.st = "failing"
       /\ procs' = [procs EXCEPT ![i].st = "errored"]
       /\ venvCalls' = SettleCall(venvCalls, p.owner.id,
                                  VenvResult(FALSE, SpawnErrorMessage), EnvReady(procs))
       /\ UNCHANGED <<fs, last, uploads, trains, converts, ioFailed, trainPage>>

\* Variant of PipClose that resolves on exit code 0 only and logs any other.
PipCloseLogsFailure(i, code) ==
    LET p == procs[i]
        ps == [procs EXCEPT ![i] = [p EXCEPT !.st = "closed", !.code = code]]
    IN /\ p.kind = "pip"
       /\ \/ p.st = "running" /\ code \in ExitCodes
          \/ p.st = "errored" /\ code = "-2"
       /\ procs' = ps
       /\ venvCalls' = IF code = "0"
                       THEN SettleCall(venvCalls, p.owner.id, VenvResult(TRUE, Undefined),
                                       EnvReady(ps))
                       ELSE venvCalls
       /\ UNCHANGED <<fs, last, uploads, trains, converts, ioFailed, trainPage>>

\* pipProcess.on('close')
PipClose(i, code) ==
    LET p == procs[i]
        ps == [procs EXCEPT ![i] = [p EXCEPT !.st = "closed", !.code = code]]
    IN /\ p.kind = "pip"
       /\ \/ p.st = "running" /\ code \in ExitCodes
          \/ p.st = "errored" /\ code = "-2"
       /\ procs' = ps
       /\ venvCalls' = SettleCall(venvCalls, p.owner.id,
             IF code = "0" THEN VenvResult(TRUE, Undefined)
             ELSE VenvResult(FALSE, IF p.error # <<>> THEN p.error
                                    ELSE <<"pip exited with code ", code>>),
             EnvReady(ps))
       /\ UNCHANGED <<fs, last, uploads, trains, converts, ioFailed, trainPage>>

\* pipProcess.on('error')
PipError(i) ==
    LET p == procs[i]
    IN /\ p.kind = "pip" /\ p.st = "failing"
       /\ procs' = [procs EXCEPT ![i].st = "errored"]
       /\ venvCalls' = SettleCall(venvCalls, p.owner.id,
                                  VenvResult(FALSE, SpawnErrorMessage), EnvReady(procs))
       /\ UNCHANGED <<fs, last, uploads, trains, converts, ioFailed, trainPage>>

---------------------------------------------------------------------------
(* Job executor: the event handlers of executePythonScript *)

\* pythonProcess.stdout.on('data') (and pipProcess.stdout.on('data'))
ProcStdout(i, ch) ==
    /\ procs[i].st = "running" /\ procs[i].kind # "bootstrap"
    /\ Len(procs[i].output) < MaxText
    /\ procs' = [procs EXCEPT ![i].output = Append(@, ch)]
    /\ UNCHANGED <<fs, last, uploads, trains, converts, venvCalls, trainPage, ioFailed>>

\* pythonProcess.stderr.on('data') (and the stderr handlers of setupPythonVenv)
ProcStderr(i, ch) ==
    /\ procs[i].st = "running"
    /\ Len(procs[i].error) < MaxText
    /\ procs' = [procs EXCEPT ![i].error = Append(@, ch)]
    /\ UNCHANGED <<fs, last, uploads, trains, converts, venvCalls, trainPage, ioFailed>>

\* what the awaiting handler does once the promise of job p resolves with r
Continue(p, r) ==
    CASE p.owner.type = "upload" ->
           LET fin == UploadFinish(fs, uploads[p.owner.id], r)
           IN /\ fs' = fin.fs
              /\ uploads' = [uploads EXCEPT ![p.owner.id] = fin.upload]
              /\ UNCHANGED <<trains, converts>>
      [] p.owner.type = "train" ->
           /\ trains' = [trains EXCEPT ![p.owner.id].settled = TRUE,
                                       ![p.owner.id].result = r]
           /\ UNCHANGED <<fs, uploads, converts>>
      [] p.owner.type = "convert" ->
           /\ converts' = [converts EXCEPT ![p.owner.id].settled = TRUE,
                                           ![p.owner.id].result = r]
           /\ UNCHANGED <<fs, uploads, trains>>

\* an event handler of job i calls resolve(r)
Resolve(i, next, r) ==
    /\ procs' = [procs EXCEPT ![i] = Settle(next, r)]
    /\ IF procs[i].settled
       THEN UNCHANGED <<fs, uploads, trains, converts>>
       ELSE Continue(procs[i], r)

\* pythonProcess.on('close')
JobClose(i, code) ==
    LET p == procs[i]
    IN /\ IsJob(p)
       /\ \/ p.st = "running" /\ code \in ExitCodes
          \/ p.st = "errored" /\ code = "-2"
       /\ Resolve(i, [p EXCEPT !.st = "closed", !.code = code], CloseResult(p, code))
       /\ UNCHANGED <<last, venvCalls, trainPage, ioFailed>>

\* Variant of JobError that only logs the spawn error and leaves the promise
\* to the 'close' handler.
JobErrorUnresolved(i) ==
    LET p == procs[i]
    IN /\ IsJob(p) /\ p.st = "failing"
       /\ procs' = [procs EXCEPT ![i].st = "errored"]
       /\ UNCHANGED <<fs, uploads, trains, converts>>
       /\ UNCHANGED <<last, venvCalls, trainPage, ioFailed>>

\* pythonProcess.on('error')
JobError(i) ==
    LET p == procs[i]
    IN /\ IsJob(p) /\ p.st = "failing"
       /\ Resolve(i, [p EXCEPT !.st = "errored"], ErrorResult(p))
       /\ UNCHANGED <<last, venvCalls, trainPage, ioFailed>>

---------------------------------------------------------------------------
(* Image listing and model download *)

\* path.extname(file), on the entry names of the model
extname(file) ==
    CASE file = "a.jpg" -> ".jpg"
      [] file = "b.txt" -> ".txt"
      [] file = "c.PNG" -> ".PNG"
      [] file = "e.jpeg" -> ".jpeg"
      [] file = "v.mp4" -> ".mp4"
      [] file = "w.mp4" -> ".mp4"
      [] file = "model-settings.json" -> ".json"
      [] file = "model.tflite" -> ".tflite"
      [] OTHER -> ""

\* Variant of toLowerCase that leaves the text as it is.
toLowerCaseNot(ext) == ext

\* String.prototype.toLowerCase, on the extensions of the model
toLowerCase(ext) == IF ext = ".PNG" THEN ".png" ELSE ext

imageExtensions == {".jpg", ".jpeg", ".png"}

\* files.filter(...).map(...) of getProjectImages
RECURSIVE FilterImages(_, _)
FilterImages(projectPath, files) ==
    IF files = <<>> THEN <<>>
    ELSE LET file == Head(files)
             rest == FilterImages(projectPath, Tail(files))
         IN IF toLowerCase(extname(file)) \in imageExtensions
            THEN <<[name |-> file,
                    url |-> [scheme |-> "file://", path |-> Join(projectPath, file)]]>>
                 \o rest
            ELSE rest

\* getProjectImages(projectPath); fs.readdirSync throws when projectPath is
\* not a directory on disk, or when the read fails (readFails), and the
\* catch block returns []
getProjectImages(f, projectPath, readFails) ==
    IF readFails \/ ~isDirectory(f, projectPath) THEN <<>>
    ELSE FilterImages(projectPath, readdirSync(f, projectPath))

\* the paths a front-end asks the images of
ImagePathInput == {PositivesOf(DatasetPath("d1")), DatasetPath("d2"), DatasetsPath}

\* Variant of IpcGetProjectImages that lets the read error through.
IpcGetProjectImagesRethrows(projectPath, readFails) ==
    LET threw == readFails \/ ~isDirectory(fs, projectPath)
    IN /\ last' = [flip |-> ~last.flip, op |-> "get-project-images", arg |-> "",
                   status |-> 0, threw |-> threw,
                   body |-> [NoBody EXCEPT !.success = ~threw,
                               !.file = projectPath,
                               !.images = getProjectImages(fs, projectPath, readFails)],
                   existed |-> existsSync(fs, projectPath)]
       /\ ioFailed' = (ioFailed \/ readFails)
       /\ UNCHANGED <<fs, uploads, trains, converts, venvCalls, trainPage, procs>>

\* ipcMain.handle('get-project-images'); body.file records the path asked
IpcGetProjectImages(projectPath, readFails) ==
    /\ last' = [flip |-> ~last.flip, op |-> "get-project-images", arg |-> "",
                status |-> 0, threw |-> FALSE,
                body |-> [NoBody EXCEPT !.success = TRUE,
                            !.file = projectPath,
                            !.images = getProjectImages(fs, projectPath, readFails)],
                existed |-> existsSync(fs, projectPath)]
    /\ ioFailed' = (ioFailed \/ readFails)
    /\ UNCHANGED <<fs, uploads, trains, converts, venvCalls, trainPage, procs>>

\* req.query.modelName of a download request; "" is an absent parameter
ModelNameInput == {"", "m1", "m2"}

ModelFilePath(modelName) == Join(Join(ModelPath(modelName), "models"), "model.tflite")

\* Variant of HttpDownloadModel that reads the model folder without looking
\* whether it is there: the read throws into the catch block.
HttpDownloadModelUnchecked(modelName) ==
    /\ IF modelName = ""
       THEN Respond("download-model-mobile", modelName, 400, FALSE,
                    [NoBody EXCEPT !.error = "Error, modelName parameter is required"])
       ELSE IF ~existsSync(fs, ModelPath(modelName))
       THEN Respond("download-model-mobile", modelName, 500, TRUE,
                    [NoBody EXCEPT !.error = "Error downloading model",
                                   !.message = "error.message"])
       ELSE IF ~existsSync(fs, ModelFilePath(modelName))
       THEN Respond("download-model-mobile", modelName, 404, FALSE,
                    [NoBody EXCEPT !.error = "Error, no model created"])
       ELSE Respond("download-model-mobile", modelName, 200, FALSE,
                    [NoBody EXCEPT !.success = TRUE, !.fileName = "model.tflite",
                                   !.file = ModelFilePath(modelName)])
    /\ UNCHANGED <<fs, ioFailed, uploads, trains, converts, venvCalls, trainPage, procs>>

\* app.get('/download-model-mobile'); status 200 is res.download of the file
HttpDownloadModel(modelName) ==
    /\ IF modelName = ""
       THEN Respond("download-model-mobile", modelName, 400, FALSE,
                    [NoBody EXCEPT !.error = "Error, modelName parameter is required"])
       ELSE IF ~existsSync(fs, ModelPath(modelName))
       THEN Respond("download-model-mobile", modelName, 404, FALSE,
                    [NoBody EXCEPT !.error = "Error, failure to find model folder"])
       ELSE IF ~existsSync(fs, ModelFilePath(modelName))
       THEN Respond("download-model-mobile", modelName, 404, FALSE,
                    [NoBody EXCEPT !.error = "Error, no model created"])
       ELSE Respond("download-model-mobile", modelName, 200, FALSE,
                    [NoBody EXCEPT !.success = TRUE, !.fileName = "model.tflite",
                                   !.file = ModelFilePath(modelName)])
    /\ UNCHANGED <<fs, ioFailed, uploads, trains, converts, venvCalls, trainPage, procs>>

---------------------------------------------------------------------------
(* Train page (js/train.js): the click handler of the Train button, in     *)
(* the renderer.  The invoke of execute-train is a message to the main     *)
(* process; its reply comes back as a message.                             *)

\* clicks on the Train button in one run
MaxClicks == 2

\* trainBtn 'click', up to the await of executeTrain.  A disabled button
\* gets no click.  hasDisplay: the page has the element 'random-number';
\* without it line 44 throws, the catch block throws as well, and the
\* finally block runs before any call is made.
TrainClick(hasDisplay) ==
    /\ ~trainPage.disabled
    /\ trainPage.clicks < MaxClicks
    /\ trainPage' =
          IF hasDisplay
          THEN [trainPage EXCEPT !.disabled = TRUE,
                                 !.textContent = "Training in progress...",
                                 !.display = "Training in progress...",
                                 !.pc = "invoked", !.call = 0, !.reply = NoReply,
                                 !.clicks = @ + 1]
          ELSE [trainPage EXCEPT !.disabled = FALSE, !.textContent = "Train",
                                 !.clicks = @ + 1]
    /\ UNCHANGED <<fs, last, uploads, trains, converts, venvCalls, procs, ioFailed>>

\* the main process takes the page's invoke: {projectPath, epochs:
\* parseInt(epochSlider.value)}, so epochs is a number
TrainInvoke(projectName, failAt) ==
    /\ trainPage.pc = "invoked"
    /\ ExecuteTrainHandler(projectName, "10", failAt)
    /\ trainPage' =
          [trainPage EXCEPT
              !.pc = "awaiting",
              !.call = IF Len(trains') > Len(trains) THEN Len(trains') ELSE 0,
              !.reply = IF last'.flip # last.flip
                        THEN [settled |-> TRUE, threw |-> last'.threw,
                              success |-> last'.body.success]
                        ELSE NoReply]

\* Variant of TrainReply without the finally block: the button is reset at
\* the end of the try block.
TrainReplyWithoutFinally ==
    LET threw == trainPage.reply.settled /\ trainPage.reply.threw
        success == IF trainPage.call > 0 THEN trains[trainPage.call].result.success
                   ELSE trainPage.reply.success
    IN /\ trainPage.pc = "awaiting"
       /\ trainPage.reply.settled \/ (trainPage.call > 0 /\ trains[trainPage.call].settled)
       /\ trainPage' =
             [trainPage EXCEPT
                 !.pc = "idle",
                 !.display = IF threw THEN "IPC Error: "
                             ELSE IF success THEN "Training completed successfully!"
                             ELSE "Training failed.",
                 !.disabled = threw,
                 !.textContent = IF threw THEN @ ELSE "Train"]
       /\ UNCHANGED <<fs, last, uploads, trains, converts, venvCalls, procs, ioFailed>>

\* the invoke settles and the click handler goes on: the result branches
\* (64-76) or the catch block (77-81), then the finally block (82-87)
TrainReply ==
    LET threw == trainPage.reply.settled /\ trainPage.reply.threw
        success == IF trainPage.call > 0 THEN trains[trainPage.call].result.success
                   ELSE trainPage.reply.success
    IN /\ trainPage.pc = "awaiting"
       /\ trainPage.reply.settled \/ (trainPage.call > 0 /\ trains[trainPage.call].settled)
       /\ trainPage' =
             [trainPage EXCEPT
                 !.pc = "idle",
                 !.display = IF threw THEN "IPC Error: "
                             ELSE IF success THEN "Training completed successfully!"
                             ELSE "Training failed.",
                 !.disabled = FALSE,
                 !.textContent = "Train"]
       /\ UNCHANGED <<fs, last, uploads, trains, converts, venvCalls, procs, ioFailed>>

---------------------------------------------------------------------------
(* Spec: the project store and the ingestion endpoint.  Children are       *)
(* silent here; what they write is the subject of SpecExec, and the        *)
(* provisioning of the environment that of SpecEnv.                        *)

Calls == Len(uploads) + Len(trains) + Len(converts)

Next ==
    \/ \E n \in Names : IpcCreateDatasetFolder(n, 0)
    \/ \E m \in ModelNames : IpcCreateModelFolder(m, 0)
    \/ IpcGetDatasetsList(FALSE)
    \/ IpcGetModelsList(FALSE)
    \/ \E n \in NameInput : HttpAddDataset(n, 0)
    \/ /\ Calls < MaxCalls
       /\ \E fn \in FileNameInput, fd \in {"", "QQ=="}, n \in NameInput :
              HttpUploadVideo(fn, fd, n, 0)
    \/ /\ Calls < MaxCalls
       /\ \E n \in Names : IpcExecuteTrain(n, "10", 0)
    \/ \E i \in DOMAIN procs, code \in ExitCodes \cup {"-2"} : JobClose(i, code)
    \/ \E i \in DOMAIN procs : JobError(i)

Spec == Init /\ [][Next]_vars

---------------------------------------------------------------------------
(* SpecFail: the handlers of the store that finish without a child, on a   *)
(* disk whose mutating calls can throw.                                    *)

NextFail ==
    \/ \E n \in Names, k \in FailPoints : IpcCreateDatasetFolder(n, k)
    \/ \E m \in ModelNames, k \in FailPoints : IpcCreateModelFolder(m, k)
    \/ \E readFails \in BOOLEAN : IpcGetDatasetsList(readFails)
    \/ \E readFails \in BOOLEAN : IpcGetModelsList(readFails)
    \/ \E n \in NameInput, k \in FailPoints : HttpAddDataset(n, k)
    \/ \E k \in FailPoints : IpcGetPareidoliaPath(k)

SpecFail == Init /\ [][NextFail]_vars

---------------------------------------------------------------------------
(* SpecJobFail: the handlers that run a job, on a disk whose mutating      *)
(* calls can throw.                                                        *)

NextJobFail ==
    \/ \E n \in Names, k \in FailPoints : IpcCreateDatasetFolder(n, k)
    \/ /\ Calls < MaxCalls
       /\ \E k \in FailPoints : HttpUploadVideo("v.mp4", "QQ==", "d1", k)
    \/ /\ Calls < MaxCalls
       /\ \E n \in Names, e \in EpochsInput, k \in FailPoints : IpcExecuteTrain(n, e, k)
    \/ \E i \in DOMAIN procs, code \in {"0", "1", "-2"} : JobClose(i, code)
    \/ \E i \in DOMAIN procs : JobError(i)

SpecJobFail == Init /\ [][NextJobFail]_vars

---------------------------------------------------------------------------
(* SpecEnv: the environment provisioner and the handlers that run jobs, on *)
(* a fresh disk.                                                           *)

InitEnv ==
    /\ fs = {}
    /\ Idle

EnvCalls == Len(venvCalls) + Calls

NextEnv ==
    \/ /\ EnvCalls < MaxEnvCalls
       /\ \E onPath \in BOOLEAN : SetupPythonVenv(onPath)
    \/ \E i \in DOMAIN procs : BootstrapWrites(i)
    \/ \E i \in DOMAIN procs, code \in {"0", "1", "-2"} : BootstrapClose(i, code)
    \/ \E i \in DOMAIN procs : BootstrapError(i)
    \/ \E i \in DOMAIN procs, code \in {"0", "1", "-2"} : PipClose(i, code)
    \/ \E i \in DOMAIN procs : PipError(i)
    \/ /\ EnvCalls < MaxEnvCalls
       /\ HttpUploadVideo("v.mp4", "QQ==", "d1", 0)
    \/ /\ EnvCalls < MaxEnvCalls
       /\ IpcExecuteTrain("d1", "10", 0)
    \/ /\ EnvCalls < MaxEnvCalls
       /\ \E canceled \in BOOLEAN : IpcConvertVideo("d1", canceled)
    \/ \E i \in DOMAIN procs, code \in {"0", "1", "-2"} : JobClose(i, code)
    \/ \E i \in DOMAIN procs : JobError(i)

SpecEnv == InitEnv /\ [][NextEnv]_vars

---------------------------------------------------------------------------
(* SpecVenv: the environment provisioner alone, with children that do not  *)
(* hang: a child that failed to spawn emits 'error', and every child       *)
(* emits 'close' in the end.                                               *)

NextVenv ==
    \/ /\ Len(venvCalls) < MaxEnvCalls
       /\ \E onPath \in BOOLEAN : SetupPythonVenv(onPath)
    \/ \E i \in DOMAIN procs : BootstrapWrites(i)
    \/ \E i \in DOMAIN procs, code \in {"0", "1", "-2"} : BootstrapClose(i, code)
    \/ \E i \in DOMAIN procs : BootstrapError(i)
    \/ \E i \in DOMAIN procs, code \in {"0", "1", "-2"} : PipClose(i, code)
    \/ \E i \in DOMAIN procs : PipError(i)

ChildrenEnd ==
    /\ WF_vars(\E i \in DOMAIN procs, code \in {"0", "1", "-2"} : BootstrapClose(i, code))
    /\ WF_vars(\E i \in DOMAIN procs : BootstrapError(i))
    /\ WF_vars(\E i \in DOMAIN procs, code \in {"0", "1", "-2"} : PipClose(i, code))
    /\ WF_vars(\E i \in DOMAIN procs : PipError(i))

SpecVenv == Init /\ [][NextVenv]_vars /\ ChildrenEnd

---------------------------------------------------------------------------
(* SpecExec: one executePythonScript call, made by execute-train on a      *)
(* dataset, with a child that writes to its streams.                       *)

InitExec ==
    /\ fs \in {createDatasetFolder(IoStart(disk, 0), "d1").fs :
                  disk \in {{}, ProvisionedDisk}}
    /\ Idle

NextExec ==
    \/ /\ trains = <<>>
       /\ IpcExecuteTrain("d1", "10", 0)
    \/ \E i \in DOMAIN procs, ch \in Chars : ProcStdout(i, ch)
    \/ \E i \in DOMAIN procs, ch \in Chars : ProcStderr(i, ch)
    \/ \E i \in DOMAIN procs, code \in ExitCodes \cup {"-2"} : JobClose(i, code)
    \/ \E i \in DOMAIN procs : JobError(i)

SpecExec == InitExec /\ [][NextExec]_vars

---------------------------------------------------------------------------
(* SpecList: the listings and the download route, over the disks that the  *)
(* store's operations, the jobs and the user's own files can leave.        *)

ImageNames == {"a.jpg", "b.txt", "c.PNG", "e.jpeg"}

\* files of the given names in directory p
FilesIn(p, names) == {File(Join(p, n), "x") : n \in names}

\* a disk with the datasets of `datasets`, the files `images` in the
\* positives/ of d1, a model m1 (folder: as createModelFolder leaves it,
\* trained: with its model.tflite), and stray files in the two category
\* directories
ListDisk(datasets, images, model, stray) ==
    LET f0 == ensurePareidoliaFolder(IoStart({}, 0)).fs
        f1 == IF "d1" \in datasets THEN createDatasetFolder(IoStart(f0, 0), "d1").fs ELSE f0
        f2 == IF "d2" \in datasets THEN createDatasetFolder(IoStart(f1, 0), "d2").fs ELSE f1
        f3 == IF "d1" \in datasets
              THEN f2 \cup FilesIn(PositivesOf(DatasetPath("d1")), images) ELSE f2
        f4 == IF model = "none" THEN f3 ELSE createModelFolder(IoStart(f3, 0), "m1").fs
        f5 == IF model = "trained" THEN f4 \cup {File(ModelFilePath("m1"), "x")} ELSE f4
    IN IF stray THEN f5 \cup FilesIn(DatasetsPath, {"b.txt"}) \cup FilesIn(ModelsPath, {"b.txt"})
       ELSE f5

ListDisks ==
    {{}} \cup {ListDisk(ds, im, mo, st) :
                  ds \in SUBSET {"d1", "d2"}, im \in SUBSET ImageNames,
                  mo \in {"none", "folder", "trained"}, st \in BOOLEAN}

InitList ==
    /\ fs \in ListDisks
    /\ Idle

NextList ==
    \/ \E readFails \in BOOLEAN : IpcGetDatasetsList(readFails)
    \/ \E readFails \in BOOLEAN : IpcGetModelsList(readFails)
    \/ \E p \in ImagePathInput, readFails \in BOOLEAN : IpcGetProjectImages(p, readFails)
    \/ \E m \in ModelNameInput : HttpDownloadModel(m)
    \/ \E readFails \in BOOLEAN : HttpGetDatasets(readFails)
    \/ \E readFails \in BOOLEAN : HttpGetModels(readFails)

SpecList == InitList /\ [][NextList]_vars

---------------------------------------------------------------------------
(* SpecModel: the creation of model folders, over the disks that earlier   *)
(* runs can leave: a model folder at any stage of its making, and a        *)
(* settings record that was edited since.                                  *)

\* the text of a settings record that is not the default one
EditedSettingsText == "{\"datasets\": [\"d1\"], \"labels\": [\"face\"], \"epochs\": 20}"

\* a disk with model m1 at one stage: "none"; "folder" (the directory
\* only); "subfolder" (with models/); "default" (as createModelFolder
\* leaves it); "edited" (with an edited settings record); "record" (the
\* directory and an edited settings record, models/ removed)
ModelDisk(stage) ==
    LET f0 == ensurePareidoliaFolder(IoStart({}, 0)).fs
        f1 == mkdirSync(f0, ModelPath("m1"))
        f2 == mkdirSync(f1, Join(ModelPath("m1"), "models"))
    IN CASE stage = "none" -> f0
         [] stage = "folder" -> f1
         [] stage = "subfolder" -> f2
         [] stage = "default" -> createModelFolder(IoStart(f0, 0), "m1").fs
         [] stage = "edited" -> writeFileSync(f2, SettingsPath("m1"), EditedSettingsText)
         [] stage = "record" -> writeFileSync(f1, SettingsPath("m1"), EditedSettingsText)

ModelDisks ==
    {{}} \cup {ModelDisk(stage) :
                  stage \in {"none", "folder", "subfolder", "default", "edited", "record"}}

InitModel ==
    /\ fs \in ModelDisks
    /\ Idle

NextModel ==
    \/ \E m \in ModelNameInput \ {""}, k \in FailPoints : IpcCreateModelFolder(m, k)
    \/ \E m \in ModelNameInput : HttpAddModel(m)
    \/ \E readFails \in BOOLEAN : IpcGetModelsList(readFails)

SpecModel == InitModel /\ [][NextModel]_vars

---------------------------------------------------------------------------
(* SpecUpload: uploads that arrive while the conversions of earlier ones   *)
(* are in flight, with or without the environment on disk.                 *)

\* POST /upload-video requests in one run
MaxUploads == 3

UploadFileNames == {"v.mp4", "w.mp4"}

NextUpload ==
    \/ /\ Len(uploads) < MaxUploads
       /\ \E fn \in UploadFileNames, fd \in FileDataInput \ {""} :
              HttpUploadVideo(fn, fd, "d1", 0)
    \/ \E i \in DOMAIN procs, code \in {"0", "1", "-2"} : JobClose(i, code)
    \/ \E i \in DOMAIN procs : JobError(i)

SpecUpload == Init /\ [][NextUpload]_vars

---------------------------------------------------------------------------
(* SpecTrain: the train page, the execute-train handler and the training   *)
(* jobs, on a disk where datasets are made meanwhile and filesystem calls  *)
(* can throw.                                                              *)

NextTrain ==
    \/ \E hasDisplay \in BOOLEAN : TrainClick(hasDisplay)
    \/ \E n \in Names, k \in FailPoints : TrainInvoke(n, k)
    \/ TrainReply
    \/ \E n \in Names : IpcCreateDatasetFolder(n, 0)
    \/ \E i \in DOMAIN procs, code \in {"0", "1", "-2"} : JobClose(i, code)
    \/ \E i \in DOMAIN procs : JobError(i)

SpecTrain == Init /\ [][NextTrain]_vars

---------------------------------------------------------------------------
(* Claims *)

\* the job that the call [type, id] awaits
JobOf(ps, type, id) ==
    CHOOSE i \in DOMAIN ps : IsJob(ps[i]) /\ ps[i].owner = [type |-> type, id |-> id]

DatasetComplete(f, name) ==
    /\ isDirectory(f, DatasetPath(name))
    /\ isDirectory(f, PositivesOf(DatasetPath(name)))
    /\ isDirectory(f, NegativesOf(DatasetPath(name)))

\* C1: an upload with all three fields to a dataset that is not on disk
\* creates the dataset with positives/ and negatives/, writes the decoded
\* video into positives/ and spawns the conversion job, all before it
\* responds; once the job has resolved it removes the video and only then
\* responds, with 201 whether the job resolved success:true or success:false.
C1_UploadOrder ==
    [][\A u \in DOMAIN uploads' :
         LET r == uploads'[u]
             v == VideoPath(r.datasetName, r.fileName)
             j == JobOf(procs', "upload", u)
         IN ~r.existed =>
            /\ u \notin DOMAIN uploads =>
                 /\ ~existsSync(fs, DatasetPath(r.datasetName))
                 /\ DatasetComplete(fs', r.datasetName)
                 /\ File(v, Base64Decode(r.fileData)) \in fs'
                 /\ procs'[j].kind = "extract" /\ ~procs'[j].settled
                 /\ j \notin DOMAIN procs
            /\ r.pc = "converting" =>
                 /\ r.status = 0
                 /\ ~procs'[j].settled
                 /\ r.log = <<"createDataset", "write", "spawn">>
            /\ r.pc = "responded" =>
                 /\ r.status = 201 /\ r.body.success
                 /\ procs'[j].settled /\ r.conversion = procs'[j].result
                 /\ r.log \in {<<"createDataset", "write", "spawn", "converted", x, "respond">> :
                                 x \in {"unlink", "unlinkThrew"}}
            /\ (u \in DOMAIN uploads /\ uploads[u].pc = "converting" /\ r.pc = "responded") =>
                 /\ ~procs[j].settled
                 /\ ~isFile(fs', v)
      ]_vars

\* C1 witness: an upload that created its dataset has responded 201 although
\* its conversion job resolved success:false
C1_Witness ==
    \E u \in DOMAIN uploads :
        /\ ~uploads[u].existed /\ uploads[u].pc = "responded"
        /\ uploads[u].status = 201 /\ ~uploads[u].conversion.success
        /\ DatasetComplete(fs, uploads[u].datasetName)
        /\ ~isFile(fs, VideoPath(uploads[u].datasetName, uploads[u].fileName))

\* C2: executePythonScript never throws or rejects: whatever the child does
\* (exit 0, exit non-zero, ended by a signal with no exit code, failed to
\* spawn), once its 'close' or 'error' event has been handled the promise is
\* resolved with a result that carries a boolean success flag, and the
\* awaiting handler has received that very result; before that the promise
\* is pending.
C2_AlwaysResolves ==
    \A i \in DOMAIN procs :
        LET p == procs[i]
        IN IsJob(p) /\ p.owner.type = "train" =>
             /\ p.st \in {"running", "failing"} =>
                    ~p.settled /\ ~trains[p.owner.id].settled
             /\ p.st \in {"closed", "errored"} =>
                    /\ p.settled
                    /\ p.result.success \in BOOLEAN
                    /\ p.result.success <=> (p.st = "closed" /\ p.code = "0")
                    /\ trains[p.owner.id].settled
                    /\ trains[p.owner.id].result = p.result

\* C2 witness: a job whose spawn failed has emitted 'error' (its 'close' is
\* still to come) and the awaiting handler holds a success:false result
C2_Witness ==
    \E i \in DOMAIN procs :
        /\ IsJob(procs[i]) /\ procs[i].owner.type = "train"
        /\ procs[i].st = "errored"
        /\ trains[procs[i].owner.id].settled
        /\ ~trains[procs[i].owner.id].result.success

\* s is made of whitespace only
Blank(s) == \A k \in DOMAIN s : s[k] = " "

\* t is raw without its leading and trailing whitespace
IsTrimOf(t, raw) ==
    /\ t = <<>> \/ (t[1] # " " /\ t[Len(t)] # " ")
    /\ \E a \in 0..Len(raw) :
          /\ a + Len(t) <= Len(raw)
          /\ Blank(SubSeq(raw, 1, a))
          /\ t = SubSeq(raw, a + 1, a + Len(t))
          /\ Blank(SubSeq(raw, a + Len(t) + 1, Len(raw)))

\* C3: the result is a function of the outcome.  Exit code 0: success:true
\* with the trimmed stdout as output, stderr or not.  Any other code N
\* (null for a signal): success:false with the stderr text as error, or
\* 'Process exited with code N' when stderr is empty.  Spawn error:
\* success:false with the error's message, which the later 'close' does not
\* replace.
C3_ResultFollowsOutcome ==
    \A i \in DOMAIN procs :
        LET p == procs[i]
            r == p.result
        IN IsJob(p) /\ p.settled =>
             /\ (p.st = "closed" /\ p.code = "0") =>
                    /\ r.success /\ r.error = Undefined
                    /\ IsTrimOf(r.output, p.output)
             /\ (p.st = "closed" /\ p.code \in {"1", "null"}) =>
                    /\ ~r.success /\ r.output = Undefined
                    /\ p.error # <<>> => r.error = p.error
                    /\ p.error = <<>> => r.error = <<"Process exited with code ", p.code>>
             /\ (p.st = "errored" \/ (p.st = "closed" /\ p.code = "-2")) =>
                    /\ ~r.success /\ r.output = Undefined
                    /\ r.error = SpawnErrorMessage

\* C3 witness: a job that wrote to stderr and padded its stdout has exited 0
\* and resolved success:true with the trimmed stdout
C3_Witness ==
    \E i \in DOMAIN procs :
        /\ IsJob(procs[i]) /\ procs[i].settled
        /\ procs[i].st = "closed" /\ procs[i].code = "0"
        /\ procs[i].error # <<>>
        /\ procs[i].output = <<" ", "a">>
        /\ procs[i].result.success /\ procs[i].result.output = <<"a">>

\* a name that is one path segment
IsSegment(name) == Len(PathSegments(name)) = 1

\* how many entries of a listing carry the name
CountName(list, name) == Cardinality({k \in DOMAIN list : list[k].name = name})

\* C4: createDataset(name), for a dataset name (one path segment), leaves a
\* disk on which listDatasets() has an entry with that name exactly once.
\* When the dataset directory was already there the call raises no error,
\* the listing is the one from before, and every entry that was on disk is
\* still there with its content; a dataset that had its two subdirectories
\* is left exactly as it was.
C4_CreateThenListOnce ==
    [][(/\ last'.flip # last.flip
        /\ last'.op \in {"create-dataset-folder", "add-dataset"}
        /\ IsSegment(last'.arg)) =>
          LET name == last'.arg
          IN /\ ~last'.threw
             /\ CountName(getDatasetsList(fs'), name) = 1
             /\ existsSync(fs, DatasetPath(name)) =>
                   /\ getDatasetsList(fs') = getDatasetsList(fs)
                   /\ fs \subseteq fs'
                   /\ DatasetComplete(fs, name) => fs' = fs
      ]_vars

\* C4 witness: createDataset was called for a dataset that was already on
\* disk with an uploaded video in it; the video is still there and the
\* listing has the name once
C4_Witness ==
    /\ last.op = "create-dataset-folder" /\ last.existed /\ ~last.threw
    /\ IsSegment(last.arg)
    /\ CountName(getDatasetsList(fs), last.arg) = 1
    /\ \E u \in DOMAIN uploads :
          /\ uploads[u].datasetName = last.arg /\ uploads[u].pc = "converting"
          /\ isFile(fs, VideoPath(last.arg, uploads[u].fileName))

\* C5: as long as no filesystem call has failed, every directory directly
\* under datasets/ has a positives/ and a negatives/ subdirectory.
C5_DatasetsHaveBothFolders ==
    ~ioFailed =>
        \A k \in DOMAIN getDatasetsList(fs) :
            LET projectPath == getDatasetsList(fs)[k].path
            IN /\ isDirectory(fs, PositivesOf(projectPath))
               /\ isDirectory(fs, NegativesOf(projectPath))

\* the processes that setupPythonVenv call c spawned
SpawnedBy(ps, c) == {i \in DOMAIN ps : ps[i].owner = [type |-> "venv", id |-> c]}

\* C6: a setupPythonVenv call is resolved success:true only when the
\* environment is Ready: a bootstrap and a package install have both closed
\* with status zero.
C6_SuccessOnlyWhenReady ==
    \A c \in DOMAIN venvCalls :
        (venvCalls[c].settled /\ venvCalls[c].result.success) => venvCalls[c].envReady

\* C7: a setupPythonVenv call made while an earlier call has not resolved
\* and the environment is not on disk starts no creation sequence of its
\* own: all in all there is one bootstrap process.
C7_OneCreationSequence ==
    \A c \in DOMAIN venvCalls :
        (venvCalls[c].overlap /\ ~venvCalls[c].sawVenv) => SpawnedBy(procs, c) = {}

\* C8: a job that runs on the environment's interpreter is spawned only
\* after a setupPythonVenv call has resolved success:true.
C8_JobsAfterEnvironment ==
    \A i \in DOMAIN procs :
        (IsJob(procs[i]) /\ procs[i].exe = "venv") => procs[i].envOk

\* C9: a setupPythonVenv call made when the environment directory exists
\* is resolved success:true within the call and spawns nothing; so no
\* process was ever spawned by a call that found the directory, and the
\* directory, once there, stays.
C9_ExistingEnvironmentReused ==
    [][/\ (Len(venvCalls') > Len(venvCalls) /\ existsSync(fs, getVenvPath)) =>
            /\ venvCalls'[Len(venvCalls')].settled
            /\ venvCalls'[Len(venvCalls')].result.success
            /\ procs' = procs
       /\ \A c \in DOMAIN venvCalls' :
            venvCalls'[c].sawVenv => SpawnedBy(procs', c) = {}
       /\ existsSync(fs, getVenvPath) => existsSync(fs', getVenvPath)
      ]_vars

\* C9 witness: after a first call has bootstrapped the environment, a later
\* call found the directory, is resolved success:true and spawned nothing
C9_Witness ==
    \E c \in DOMAIN venvCalls :
        /\ venvCalls[c].sawVenv /\ venvCalls[c].settled
        /\ venvCalls[c].result.success
        /\ SpawnedBy(procs, c) = {}
        /\ \E d \in DOMAIN venvCalls : d < c /\ SpawnedBy(procs, d) # {}

\* C10: POST /add-dataset with an empty or missing datasetName responds 400
\* and leaves the disk as it was; with a non-empty name it responds 201
\* {success: true, datasetName} once the dataset directory and its two
\* subdirectories are on disk (and 500 only when a filesystem call threw).
C10_AddDataset ==
    [][(last'.flip # last.flip /\ last'.op = "add-dataset") =>
          /\ last'.arg = "" =>
                /\ last'.status = 400 /\ ~last'.body.success
                /\ fs' = fs
          /\ last'.arg # "" =>
                /\ last'.status = (IF last'.threw THEN 500 ELSE 201)
                /\ last'.threw => ioFailed'
                /\ last'.status = 201 =>
                      /\ last'.body.success /\ last'.body.name = last'.arg
                      /\ DatasetComplete(fs', last'.arg)
      ]_vars

\* C10 witness: on a disk that holds a dataset, a request without a name was
\* answered 400
C10_Witness ==
    /\ last.op = "add-dataset" /\ last.arg = "" /\ last.status = 400
    /\ getDatasetsList(fs) # <<>>

\* C11: a step of /upload-video on a request that lacks fileName,
\* datasetName or fileData answers 400 with the message that names the
\* first missing field in the order fileName, datasetName, fileData, and
\* leaves the disk, the uploads and the processes as they were.
C11_UploadValidation ==
    [][\A fn \in FileNameInput, fd \in FileDataInput, n \in NameInput :
          ((fn = "" \/ n = "" \/ fd = "") /\ HttpUploadVideo(fn, fd, n, 0)) =>
             /\ last'.flip # last.flip
             /\ last'.op = "upload-video" /\ last'.status = 400
             /\ ~last'.body.success
             /\ last'.body.error =
                   (CASE fn = "" -> "fileName is required"
                      [] fn # "" /\ n = "" -> "datasetName is required"
                      [] OTHER -> "fileData is required")
             /\ fs' = fs /\ procs' = procs /\ uploads' = uploads
      ]_vars

\* C11 witness: a request with fileName and datasetName but no fileData was
\* answered 400, on a fresh disk that is still empty
C11_Witness ==
    /\ last.op = "upload-video" /\ last.status = 400
    /\ last.arg # "" /\ last.body.error = "fileData is required"
    /\ fs = {} /\ procs = <<>>

\* C12: GET /download-model-mobile answers 400 without a modelName, 404 when
\* models/<modelName> is not on disk, 404 when the folder is there and
\* models/<modelName>/models/model.tflite is not, and sends that file (200)
\* exactly when both are there; it never answers 500 for a missing folder
\* and leaves the disk as it was.
C12_DownloadModel ==
    [][\A m \in ModelNameInput :
          HttpDownloadModel(m) =>
             LET folder == existsSync(fs, ModelPath(m))
                 artifact == existsSync(fs, ModelFilePath(m))
             IN /\ last'.flip # last.flip /\ last'.op = "download-model-mobile"
                /\ last'.arg = m
                /\ m = "" => last'.status = 400
                /\ (m # "" /\ ~folder) =>
                      /\ last'.status = 404
                      /\ last'.body.error = "Error, failure to find model folder"
                /\ (m # "" /\ folder /\ ~artifact) =>
                      /\ last'.status = 404
                      /\ last'.body.error = "Error, no model created"
                /\ last'.status = 200 <=> (m # "" /\ folder /\ artifact)
                /\ last'.status = 200 => last'.body.file = ModelFilePath(m)
                /\ fs' = fs
      ]_vars

\* C12 witness: the model file of m1 was sent, on a disk where a request for
\* m2 would find no folder
C12_Witness ==
    /\ last.op = "download-model-mobile" /\ last.arg = "m1" /\ last.status = 200
    /\ isFile(fs, last.body.file)
    /\ ~existsSync(fs, ModelPath("m2"))

\* the last n elements of a sequence
LastN(q, n) == SubSeq(q, Len(q) - n + 1, Len(q))

\* C13: the step in which an upload's conversion job resolves, with
\* success:true or success:false, is the step that attempts the deletion of
\* the uploaded video: afterwards the video is not on disk.  When the video
\* is no longer there the deletion throws, nothing else on disk changes, and
\* the response is 201 with success:true all the same.
C13_DeleteAfterConversion ==
    [][\A u \in DOMAIN uploads :
          (uploads[u].pc = "converting" /\ uploads'[u].pc = "responded") =>
             LET r == uploads'[u]
                 v == VideoPath(r.datasetName, r.fileName)
                 j == JobOf(procs, "upload", u)
             IN /\ ~procs[j].settled /\ procs'[j].settled
                /\ r.conversion = procs'[j].result
                /\ ~isFile(fs', v)
                /\ isFile(fs, v) =>
                      /\ fs' = fs \ {e \in fs : e.path = v}
                      /\ LastN(r.log, 3) = <<"converted", "unlink", "respond">>
                /\ ~isFile(fs, v) =>
                      /\ fs' = fs
                      /\ LastN(r.log, 3) = <<"converted", "unlinkThrew", "respond">>
                /\ r.status = 201 /\ r.body.success
      ]_vars

\* C13 witness: two uploads of the same file name were converting at once;
\* the first to finish removed the video, the deletion of the second threw,
\* and the second was answered 201 with success:true, its conversion failed
C13_Witness ==
    \E u \in DOMAIN uploads :
        /\ uploads[u].pc = "responded"
        /\ LastN(uploads[u].log, 3) = <<"converted", "unlinkThrew", "respond">>
        /\ ~uploads[u].conversion.success
        /\ uploads[u].status = 201 /\ uploads[u].body.success

\* C14: a step of /upload-video on a complete request in which a filesystem
\* call throws, while the dataset is created or the video is written, ends
\* in the response 500 {success: false, error, message}; it spawns no
\* process, registers no conversion to wait for and removes nothing from
\* the disk.  A request that does go on to the conversion had no such
\* failure.
C14_UploadFailure ==
    [][\A fn \in FileNames, fd \in FileDataInput \ {""}, n \in Names, k \in FailPoints :
          HttpUploadVideo(fn, fd, n, k) =>
             /\ last'.flip # last.flip =>
                   /\ last'.op = "upload-video" /\ last'.status = 500
                   /\ ~last'.body.success
                   /\ last'.body.error = "Failed to process video upload"
                   /\ last'.body.message # ""
                   /\ procs' = procs /\ uploads' = uploads
                   /\ fs \subseteq fs'
                   /\ ~isFile(fs', VideoPath(n, fn)) \/ isFile(fs, VideoPath(n, fn))
             /\ last'.flip = last.flip =>
                   /\ Len(uploads') = Len(uploads) + 1 /\ Len(procs') = Len(procs) + 1
                   /\ ioFailed' = ioFailed
                   /\ isFile(fs', VideoPath(n, fn))
      ]_vars

\* C14 witness: the write of the video threw for an upload to a dataset that
\* was on disk with its positives/; the answer was 500, there is no video
\* on disk and no process
C14_Witness ==
    /\ last.op = "upload-video" /\ last.status = 500 /\ last.existed
    /\ isDirectory(fs, PositivesOf(DatasetPath(last.arg)))
    /\ ~isFile(fs, VideoPath(last.arg, "v.mp4"))
    /\ procs = <<>> /\ uploads = <<>>

\* C15: execute-train for a projectPath without positives/, or with
\* positives/ and without negatives/, returns the structured failure
\* {success: false, error: '<Positives|Negatives> folder not found at:
\* <path>'}; the step spawns no process, registers no job and leaves the disk
\* as it was.
C15_TrainFolderNotFound ==
    [][\A n \in Names, e \in EpochsInput, k \in FailPoints :
          LET projectPath == DatasetPath(n)
              noPositives == ~existsSync(fs, PositivesOf(projectPath))
              noNegatives == ~existsSync(fs, NegativesOf(projectPath))
          IN (IpcExecuteTrain(n, e, k) /\ (noPositives \/ noNegatives)) =>
                /\ last'.flip # last.flip /\ last'.op = "execute-train"
                /\ ~last'.threw /\ ~last'.body.success
                /\ noPositives =>
                      /\ last'.body.error = "Positives folder not found at: "
                      /\ last'.body.file = PositivesOf(projectPath)
                /\ ~noPositives =>
                      /\ last'.body.error = "Negatives folder not found at: "
                      /\ last'.body.file = NegativesOf(projectPath)
                /\ fs' = fs /\ procs' = procs /\ trains' = trains
      ]_vars

\* C15 witness: execute-train on a dataset with positives/ and without
\* negatives/ returned the Negatives failure; nothing was spawned and the
\* dataset has no model folder
C15_Witness ==
    /\ last.op = "execute-train" /\ ~last.threw
    /\ last.body.error = "Negatives folder not found at: "
    /\ existsSync(fs, PositivesOf(DatasetPath(last.arg)))
    /\ ~existsSync(fs, NegativesOf(DatasetPath(last.arg)))
    /\ ~existsSync(fs, Join(DatasetPath(last.arg), "model"))
    /\ procs = <<>>

\* C16 as claimed: execute-train called when the model output directory is
\* not on disk returns a failure and spawns nothing.
C16_ModelFolderRequired ==
    [][\A n \in Names, e \in EpochsInput, k \in FailPoints :
          (IpcExecuteTrain(n, e, k) /\ ~existsSync(fs, Join(DatasetPath(n), "model"))) =>
             /\ last'.flip # last.flip /\ ~last'.body.success
             /\ procs' = procs
      ]_vars

\* C16 as amended: execute-train called with positives/ and negatives/ on
\* disk, with epochs, and without the model output directory makes that
\* directory and nothing else, and spawns the training job, when no
\* filesystem call throws; when the making of the directory throws the
\* call is rejected and nothing is spawned.
C16_ModelFolderCreated ==
    [][\A n \in Names, k \in FailPoints :
          LET projectPath == DatasetPath(n)
              modelFolder == Join(projectPath, "model")
          IN (/\ IpcExecuteTrain(n, "10", k)
              /\ existsSync(fs, PositivesOf(projectPath))
              /\ existsSync(fs, NegativesOf(projectPath))
              /\ ~existsSync(fs, modelFolder)) =>
                IF k = 1
                THEN /\ last'.flip # last.flip /\ last'.threw
                     /\ fs' = fs /\ procs' = procs /\ trains' = trains
                ELSE /\ last' = last
                     /\ fs' = fs \cup {Dir(modelFolder)}
                     /\ Len(procs') = Len(procs) + 1
                     /\ procs'[Len(procs')].kind = "train"
                     /\ ~procs'[Len(procs')].settled
                     /\ Len(trains') = Len(trains) + 1
      ]_vars

\* C16 witness: a training job was spawned for a dataset whose model folder
\* the call itself has made
C16_Witness ==
    \E i \in DOMAIN procs :
        /\ procs[i].kind = "train" /\ ~procs[i].settled
        /\ isDirectory(fs, Join(trains[procs[i].owner.id].projectPath, "model"))
        /\ ~isFile(fs, trains[procs[i].owner.id].projectPath \o <<"model", "model.keras">>)

\* the operations of the bridge that C17 names
BridgeOps ==
    {"create-dataset-folder", "create-model-folder", "get-datasets-list",
     "get-models-list", "get-pareidolia-path", "execute-train"}

\* C17: no operation of the bridge rejects: whatever failed, the front-end
\* gets a result value.
C17_BridgeNeverRejects ==
    last.op \in BridgeOps => ~last.threw

\* the place of a name in a sequence of names
IndexOf(q, x) == CHOOSE k \in DOMAIN q : q[k] = x

\* list is the listing of category directory cat on disk f: one {name, path}
\* entry for each directory directly under cat and for nothing else, in the
\* order in which cat is read, each path being cat/name
IsListingOf(list, f, cat) ==
    LET read == readdirSync(f, cat)
    IN /\ {list[k].name : k \in DOMAIN list}
             = {e.path[Len(e.path)] : e \in {d \in f : /\ d.kind = "dir"
                                                        /\ Len(d.path) = Len(cat) + 1
                                                        /\ IsUnder(d.path, cat)}}
       /\ \A j, k \in DOMAIN list :
             j < k => IndexOf(read, list[j].name) < IndexOf(read, list[k].name)
       /\ \A k \in DOMAIN list :
             /\ DOMAIN list[k] = {"name", "path"}
             /\ list[k].path = cat \o <<list[k].name>>

\* C18: a listing that does not fail returns the directories directly under
\* datasets/ (resp. models/), files left out, in read order, as {name, path}
\* entries with the path inside the category directory; without the
\* category directory it returns the empty sequence and does not fail even
\* if reads would; no listing changes the disk.
C18_Listings ==
    [][(last'.flip # last.flip /\ last'.op \in {"get-datasets-list", "get-models-list"}) =>
          LET cat == IF last'.op = "get-datasets-list" THEN DatasetsPath ELSE ModelsPath
          IN /\ fs' = fs
             /\ ~existsSync(fs, cat) => (~last'.threw /\ last'.body.list = <<>>)
             /\ ~last'.threw => IsListingOf(last'.body.list, fs, cat)
      ]_vars

\* C18 witness: datasets/ holds two datasets and a stray file, and the
\* listing returned has the two datasets
C18_Witness ==
    /\ last.op = "get-datasets-list" /\ ~last.threw
    /\ isFile(fs, Join(DatasetsPath, "b.txt"))
    /\ Len(last.body.list) = 2
    /\ last.body.list[1].name = "d1" /\ last.body.list[2].name = "d2"

\* C19: when the read of the category directory fails, get-datasets-list
\* and get-models-list reject; get-project-images never rejects, and
\* resolves to the empty sequence when the read fails or the path is not a
\* directory on disk.
C19_ListingFailureContracts ==
    [][/\ (IpcGetDatasetsList(TRUE) /\ existsSync(fs, DatasetsPath)) =>
            (last'.op = "get-datasets-list" /\ last'.threw /\ last'.body.list = <<>>)
       /\ (IpcGetModelsList(TRUE) /\ existsSync(fs, ModelsPath)) =>
            (last'.op = "get-models-list" /\ last'.threw /\ last'.body.list = <<>>)
       /\ \A p \in ImagePathInput, readFails \in BOOLEAN :
            IpcGetProjectImages(p, readFails) =>
               /\ last'.op = "get-project-images" /\ ~last'.threw
               /\ (readFails \/ ~isDirectory(fs, p)) => last'.body.images = <<>>
               /\ fs' = fs
      ]_vars

\* C19 witness: the images of a path that is not on disk were asked for,
\* while datasets/ is, and the call resolved to the empty sequence
C19_Witness ==
    /\ last.op = "get-project-images" /\ ~last.threw
    /\ ~existsSync(fs, last.body.file) /\ existsSync(fs, DatasetsPath)
    /\ last.body.images = <<>>

\* the entry names of the model that end in .jpg, .jpeg or .png, whatever
\* the case of the letters
ImageFileNames == {"a.jpg", "c.PNG", "e.jpeg"}

\* C20: get-project-images of a directory returns one {name, url} entry for
\* each entry of the directory whose name ends in .jpg, .jpeg or .png in
\* any case and for nothing else, in read order, the url being file://
\* followed by path/name; a directory with a.jpg, b.txt and c.PNG gives
\* a.jpg and c.PNG.
C20_ImageListing ==
    [][\A p \in ImagePathInput :
          (IpcGetProjectImages(p, FALSE) /\ isDirectory(fs, p)) =>
             LET read == readdirSync(fs, p)
                 list == last'.body.images
             IN /\ {list[k].name : k \in DOMAIN list}
                      = {read[k] : k \in DOMAIN read} \cap ImageFileNames
                /\ \A j, k \in DOMAIN list :
                      j < k => IndexOf(read, list[j].name) < IndexOf(read, list[k].name)
                /\ \A k \in DOMAIN list :
                      /\ DOMAIN list[k] = {"name", "url"}
                      /\ list[k].url = [scheme |-> "file://",
                                        path |-> p \o <<list[k].name>>]
                /\ read = <<"a.jpg", "b.txt", "c.PNG">> =>
                      (Len(list) = 2 /\ list[1].name = "a.jpg" /\ list[2].name = "c.PNG")
      ]_vars

\* C20 witness: the images of a positives/ that holds a.jpg, b.txt and c.PNG
\* were listed as a.jpg and c.PNG
C20_Witness ==
    /\ last.op = "get-project-images"
    /\ last.body.file = PositivesOf(DatasetPath("d1"))
    /\ readdirSync(fs, last.body.file) = <<"a.jpg", "b.txt", "c.PNG">>
    /\ Len(last.body.images) = 2
    /\ last.body.images[1].name = "a.jpg" /\ last.body.images[2].name = "c.PNG"

\* C21: GET /get-datasets and GET /get-models answer 200 with the array the
\* store returns for the disk (same entries, same order, the empty array
\* when there are none) and answer 500 with {error: <message>} exactly when
\* the store operation throws; neither changes the disk.
C21_HttpListings ==
    [][/\ \A readFails \in BOOLEAN :
            HttpGetDatasets(readFails) =>
               LET fails == readFails /\ existsSync(fs, DatasetsPath)
               IN /\ last'.flip # last.flip /\ last'.op = "get-datasets"
                  /\ last'.status = (IF fails THEN 500 ELSE 200)
                  /\ ~fails => last'.body.list = getDatasetsList(fs)
                  /\ fails => (last'.body.error # "" /\ last'.body.list = <<>>)
                  /\ fs' = fs
       /\ \A readFails \in BOOLEAN :
            HttpGetModels(readFails) =>
               LET fails == readFails /\ existsSync(fs, ModelsPath)
               IN /\ last'.flip # last.flip /\ last'.op = "get-models"
                  /\ last'.status = (IF fails THEN 500 ELSE 200)
                  /\ ~fails => last'.body.list = getModelsList(fs)
                  /\ fails => (last'.body.error # "" /\ last'.body.list = <<>>)
                  /\ fs' = fs
      ]_vars

\* C21 witness: GET /get-datasets was answered 500 with an error message on
\* a disk that holds two datasets
C21_Witness ==
    /\ last.op = "get-datasets" /\ last.status = 500 /\ last.body.error # ""
    /\ Len(getDatasetsList(fs)) = 2


\* C22: a createModelFolder(name) call that returns leaves models/<name>/,
\* models/<name>/models/ and the settings record on disk; it writes the
\* default record only when there was no settings record, so a record that
\* was there, edited or not, is left as it was; nothing that was on disk is
\* removed or changed.
C22_CreateModel ==
    [][\A m \in ModelNameInput \ {""}, k \in FailPoints :
          (IpcCreateModelFolder(m, k) /\ ~last'.threw) =>
             /\ isDirectory(fs', ModelPath(m))
             /\ isDirectory(fs', Join(ModelPath(m), "models"))
             /\ isFile(fs', SettingsPath(m))
             /\ fs \subseteq fs'
             /\ ~existsSync(fs, SettingsPath(m)) =>
                   File(SettingsPath(m), JSONstringify(defaultSettings)) \in fs'
             /\ fs' \ fs \subseteq
                   {Dir(PareidoliaPath), Dir(DatasetsPath), Dir(ModelsPath),
                    Dir(ModelPath(m)), Dir(Join(ModelPath(m), "models")),
                    File(SettingsPath(m), JSONstringify(defaultSettings))}
      ]_vars

\* C22 witness: createModelFolder was called for a model whose settings
\* record had been edited and whose models/ was missing; models/ is there
\* now and the record is the edited one
C22_Witness ==
    /\ last.op = "create-model-folder" /\ last.arg = "m1" /\ ~last.threw
    /\ isDirectory(fs, Join(ModelPath("m1"), "models"))
    /\ File(SettingsPath("m1"), EditedSettingsText) \in fs
    /\ isFile(fs, SettingsPath("m2"))

\* C28: POST /add-model with a non-empty modelName answers 201
\* {success: true, modelName} and leaves the model folder on disk (models/
\* <modelName>/ with models/ and the settings record); with a missing or
\* empty modelName it answers 400 and leaves the disk as it was.
C28_AddModel ==
    [][\A m \in ModelNameInput :
          HttpAddModel(m) =>
             /\ last'.flip # last.flip /\ last'.op = "add-model"
             /\ m = "" => (last'.status = 400 /\ fs' = fs)
             /\ m # "" =>
                   /\ last'.status = 201
                   /\ last'.body.success /\ last'.body.name = m
                   /\ isDirectory(fs', ModelPath(m))
                   /\ isDirectory(fs', Join(ModelPath(m), "models"))
                   /\ isFile(fs', SettingsPath(m))
      ]_vars

\* C23: an upload is handled in the step in which it arrives, whatever
\* jobs are in flight: it is registered, its conversion job is spawned at
\* once and the jobs in flight are left as they are, the dataset is on disk
\* with its two subdirectories, no filesystem call has thrown, and every
\* upload that has been answered was answered 201.
C23_NoSerialisation ==
    [][\A fn \in UploadFileNames, fd \in FileDataInput \ {""} :
          HttpUploadVideo(fn, fd, "d1", 0) =>
             /\ Len(uploads') = Len(uploads) + 1
             /\ Len(procs') = Len(procs) + 1
             /\ \A i \in DOMAIN procs : procs'[i] = procs[i]
             /\ procs'[Len(procs')].st \in {"running", "failing"}
             /\ procs'[Len(procs')].owner = [type |-> "upload", id |-> Len(uploads')]
             /\ uploads'[Len(uploads')].existed = existsSync(fs, DatasetPath("d1"))
             /\ DatasetComplete(fs', "d1")
             /\ ~ioFailed' /\ last' = last
             /\ \A u \in DOMAIN uploads' :
                   uploads'[u].pc = "responded" =>
                      (uploads'[u].status = 201 /\ uploads'[u].body.success)
      ]_vars

\* C23 witness: of two uploads to a dataset that was not on disk, the
\* second arrived while the job of the first was running and has been
\* answered 201; the job of the first is still running
C23_Witness ==
    /\ Len(uploads) = 2
    /\ ~uploads[1].existed /\ uploads[1].pc = "converting"
    /\ procs[JobOf(procs, "upload", 1)].st = "running"
    /\ uploads[2].existed /\ uploads[2].datasetName = uploads[1].datasetName
    /\ uploads[2].pc = "responded" /\ uploads[2].status = 201
    /\ DatasetComplete(fs, uploads[1].datasetName)

\* C25: while an upload waits for its conversion job, the video it wrote is
\* in positives/ with the content that upload sent.
C25_VideoKeptWhileConverting ==
    \A u \in DOMAIN uploads :
        uploads[u].pc = "converting" =>
            File(VideoPath(uploads[u].datasetName, uploads[u].fileName),
                 Base64Decode(uploads[u].fileData)) \in fs

\* C27: once every upload that was registered (it passed the validation and
\* wrote its video) has been answered, no video of an upload is in
\* positives/, whatever the conversions resolved with.
C27_NoVideoLeft ==
    (\A u \in DOMAIN uploads : uploads[u].pc = "responded") =>
        \A u \in DOMAIN uploads :
            ~existsSync(fs, VideoPath(uploads[u].datasetName, uploads[u].fileName))

\* C27 witness: three uploads, two of them of the same file name, have all
\* been answered, one after a failed and one after a successful conversion,
\* and one after a deletion that threw; positives/ is empty
C27_Witness ==
    /\ Len(uploads) = 3
    /\ \A u \in DOMAIN uploads : uploads[u].pc = "responded"
    /\ \E u, v, w \in DOMAIN uploads :
          /\ u # v /\ uploads[u].fileName = uploads[v].fileName
          /\ uploads[w].fileName # uploads[u].fileName
          /\ ~uploads[u].conversion.success /\ uploads[w].conversion.success
          /\ "unlinkThrew" \in {uploads[v].log[k] : k \in DOMAIN uploads[v].log}
    /\ readdirSync(fs, PositivesOf(DatasetPath("d1"))) = <<>>

\* p has exited with status zero
ExitedZero(p) == p.st = "closed" /\ p.code = "0"

\* C24: for a setupPythonVenv call that found no environment directory: a
\* package install of the call was spawned after the call's bootstrap had
\* closed with code 0; once resolved, the call is success:true exactly when
\* its bootstrap and its package install have both exited with status zero,
\* and it is resolved as soon as they have; once its bootstrap has closed
\* with another code or has failed to spawn, the call has no package
\* install and is resolved success:false.
C24_BootstrapThenInstall ==
    \A c \in DOMAIN venvCalls :
        ~venvCalls[c].sawVenv =>
            LET mine == SpawnedBy(procs, c)
                boots == {i \in mine : procs[i].kind = "bootstrap"}
                pips == {i \in mine : procs[i].kind = "pip"}
                bothZero == /\ \E i \in boots : ExitedZero(procs[i])
                            /\ \E i \in pips : ExitedZero(procs[i])
            IN /\ Cardinality(boots) = 1 /\ Cardinality(pips) <= 1
               /\ \A i \in pips : \E b \in boots : b < i /\ ExitedZero(procs[b])
               /\ venvCalls[c].settled => (venvCalls[c].result.success <=> bothZero)
               /\ bothZero => venvCalls[c].settled
               /\ \A b \in boots :
                     (procs[b].st = "errored" \/ (procs[b].st = "closed" /\ procs[b].code # "0")) =>
                        /\ pips = {}
                        /\ venvCalls[c].settled /\ ~venvCalls[c].result.success

\* C24 witness: of two calls that found no environment, one is resolved
\* success:true, its bootstrap and its package install having exited zero,
\* and the other success:false without a package install, its bootstrap
\* having failed to spawn
C24_Witness ==
    \E c, d \in DOMAIN venvCalls :
        /\ ~venvCalls[c].sawVenv /\ ~venvCalls[d].sawVenv
        /\ venvCalls[c].settled /\ venvCalls[c].result.success
        /\ \E i \in SpawnedBy(procs, c) : procs[i].kind = "pip" /\ ExitedZero(procs[i])
        /\ venvCalls[d].settled /\ ~venvCalls[d].result.success
        /\ \A i \in SpawnedBy(procs, d) :
              procs[i].kind = "bootstrap" /\ procs[i].result = NoResult
                /\ procs[i].st = "closed" /\ procs[i].code = "-2"

\* C29: every setupPythonVenv call is resolved in the end, when every child
\* that was spawned emits 'close' or, having failed to spawn, 'error'.
C29_EveryCallResolves ==
    \A c \in 1..MaxEnvCalls :
        (c \in DOMAIN venvCalls) ~> (c \in DOMAIN venvCalls /\ venvCalls[c].settled)

\* C29 witness: a call whose bootstrap exited zero and whose package install
\* failed to spawn is resolved, while the 'close' of the install is still to
\* come
C29_Witness ==
    \E c \in DOMAIN venvCalls :
        /\ venvCalls[c].settled /\ ~venvCalls[c].result.success
        /\ \E i \in SpawnedBy(procs, c) : procs[i].kind = "bootstrap" /\ ExitedZero(procs[i])
        /\ \E i \in SpawnedBy(procs, c) : procs[i].kind = "pip" /\ procs[i].st = "errored"

\* C26: the promise of an executePythonScript call is resolved by the first
\* 'error' or 'close' event of its child and by nothing else, and a step
\* taken once it is resolved, a later 'close' included, leaves its result
\* and the result the awaiting handler received as they were.
C26_FirstEventDecides ==
    [][\A i \in DOMAIN procs :
          LET p == procs[i]
              q == procs'[i]
          IN (IsJob(p) /\ p.owner.type = "train") =>
                /\ (~p.settled /\ q.settled) =>
                      /\ p.st \in {"running", "failing"}
                      /\ q.st \in {"closed", "errored"}
                      /\ ~trains[p.owner.id].settled
                      /\ trains'[p.owner.id].settled
                      /\ trains'[p.owner.id].result = q.result
                /\ p.settled =>
                      /\ q.settled /\ q.result = p.result
                      /\ trains'[p.owner.id] = trains[p.owner.id]
      ]_vars

\* C26 witness: the child failed to spawn, 'error' resolved the promise and
\* 'close' came afterwards with its code; the result is the one of the
\* spawn error, with the promise and with the handler
C26_Witness ==
    \E i \in DOMAIN procs :
        /\ IsJob(procs[i]) /\ procs[i].owner.type = "train"
        /\ procs[i].st = "closed" /\ procs[i].code = "-2"
        /\ procs[i].result = ErrorResult(procs[i])
        /\ procs[i].result # CloseResult(procs[i], "-2")
        /\ trains[procs[i].owner.id].result = procs[i].result

\* the execute-train calls of the page that have not settled at the page
PageCallsInFlight(page, ts) ==
    (IF page.pc = "idle" THEN 0 ELSE 1)
        + Cardinality({t \in DOMAIN ts : ~ts[t].settled /\ (page.pc = "idle" \/ t # page.call)})

\* C30: from the click on the Train button to the moment the execute-train
\* call settles at the page the button is disabled, so a click is handled
\* only when no call of the page is in flight and at most one is in flight
\* at any time; the step in which the call settles, with a success result,
\* a failure result or a rejection, leaves the button enabled with the label
\* 'Train', and the button is enabled by no other step.
C30_TrainButton ==
    [][/\ PageCallsInFlight(trainPage', trains') <= 1
       /\ trainPage'.pc # "idle" =>
             (trainPage'.disabled /\ trainPage'.textContent = "Training in progress...")
       /\ trainPage'.clicks > trainPage.clicks =>
             (~trainPage.disabled /\ PageCallsInFlight(trainPage, trains) = 0)
       /\ (trainPage.pc = "awaiting" /\ trainPage'.pc # "awaiting") =>
             /\ trainPage.reply.settled
                   \/ (trainPage.call > 0 /\ trains[trainPage.call].settled)
             /\ ~trainPage'.disabled /\ trainPage'.textContent = "Train"
       /\ (trainPage.disabled /\ ~trainPage'.disabled) =>
             (trainPage.pc = "awaiting" /\ trainPage'.pc = "idle")
      ]_vars

\* C30 witness: the first call of the page ran a training job that failed,
\* the second was rejected; the button is enabled with the label 'Train'
C30_Witness ==
    /\ trainPage.clicks = 2 /\ trainPage.pc = "idle"
    /\ trainPage.reply.settled /\ trainPage.reply.threw
    /\ trainPage.display = "IPC Error: "
    /\ \E t \in DOMAIN trains : trains[t].settled /\ ~trains[t].result.success
    /\ ~trainPage.disabled /\ trainPage.textContent = "Train"

=============================================================================
